---- MODULE Spec2Model ----
(***************************************************************************)
(* State-machine model of the RIGOL DHO954 oscilloscope GUI:               *)
(*   - the waveform decoders of rigol_instrument.py (SpecDecode),          *)
(*   - the configuration manager of config.py (SpecConfig),                *)
(*   - the polling thread and the foreground callbacks of rigol_gui.py     *)
(*     (Spec, FairSpec) and one update_waveform batch (SpecBatch),         *)
(*   - the callbacks of the main thread run one after another              *)
(*     (SpecCallbacks), single calls of the constructor, the entry         *)
(*     callbacks, update_measurements, save_waveform, the digital          *)
(*     channel methods and the validators and formatters of utils.py       *)
(*     (SpecOps), Config instances built from files (SpecLoad), and the    *)
(*     polling iteration with its sleeps (SpecPoll).                       *)
(* Text is modelled by TLA+ strings, read character by character.          *)
(* A Python float is modelled by the exact decimal it denotes, held as an  *)
(* integer number of 10^-FracDigits units (products: 10^-(2*FracDigits)).  *)
(***************************************************************************)
EXTENDS Integers, Sequences, FiniteSets, TLC

VARIABLES
    \* ---- rigol_instrument.py: one decoder call and what it returned
    call,       \* the call: kind and arguments (a decoder call: channel, points, replies)
    ret         \* its outcome: exc ("" when it returned), times, values, commands written

VARIABLES
    \* ---- config.py: the dictionaries of the process and one Config instance
    heap,       \* every dict object: heap[i] maps its keys to leaves or to other dicts
    config,     \* self.config: the dict object the instance reads and writes
    lastOp,     \* the last Config call: op, key, value, exc, result
    nOps,       \* calls that may write so far
    everSet     \* keys a set call has stored so far

VARIABLES
    \* ---- rigol_gui.py: the OscilloscopeGUI object, its threads and the instrument sessions
    scope,                  \* self.scope: 0 for None, else the session of the RigolDHO954
    sessions,               \* RigolDHO954 objects constructed so far
    closed,                 \* sessions whose close() has been called
    is_running,             \* self.is_running
    auto_update_var,        \* the Auto Update checkbox
    update_thread,          \* self.update_thread: 0 for None, else the thread last started
    channel_vars,           \* analog channels whose enable checkbox is set
    la_enabled_var,         \* the Logic Analyzer checkbox
    digital_channel_vars,   \* digital channels whose enable checkbox is set
    thr,                    \* the auto_update_loop threads: where each one is
    fg                      \* the Tk main thread: the callback it is running

VARIABLES
    \* ---- rigol_gui.py: one call of update_waveform followed on its own
    batch       \* where the call is, and what it requested, updated, logged and drew

decodeVars == <<call, ret>>

configVars == <<heap, config, lastOp, nOps, everSet>>

settingVars == <<channel_vars, la_enabled_var, digital_channel_vars>>

guiVars == <<scope, sessions, closed, is_running, auto_update_var, update_thread, thr, fg>>

vars == <<call, ret, heap, config, lastOp, nOps, everSet, scope, sessions, closed, is_running,
          auto_update_var, update_thread, channel_vars, la_enabled_var,
          digital_channel_vars, thr, fg, batch>>

-----------------------------------------------------------------------------
(* Bounds of the model *)

\* decimal places a modelled float keeps
FracDigits == 1
\* longest generated sample block, in samples
MaxSamples == 2
\* set and reset_to_defaults calls in one run of the Config instance
MaxConfigOps == 2
\* auto_update_loop threads one run of the GUI starts
MaxThreads == 2
\* instrument sessions one run of the GUI opens
MaxSessions == 2

-----------------------------------------------------------------------------
(* The OscilloscopeGUI object as __init__ leaves it *)

Threads == 1..MaxThreads

\* a thread that has not been started
Unborn == [pc |-> "unborn", pos |-> 0, step |-> 0, inst |-> 0, late |-> FALSE, after |-> 0]

\* the main thread between two callbacks
Idle == [pc |-> "idle", ch |-> 0, k |-> 0]

\* no update_waveform call is being followed
NoBatch == [pc |-> "none", pos |-> 0, requested |-> {}, updated |-> {}, logged |-> {},
            redrawn |-> FALSE]

\* __init__: scope None, is_running False, update_thread None; setup_ui: CH1 enabled,
\* logic analyzer off, no digital channel enabled, Auto Update unchecked
GuiConstructed ==
    /\ scope = 0
    /\ sessions = 0
    /\ closed = {}
    /\ is_running = FALSE
    /\ auto_update_var = FALSE
    /\ update_thread = 0
    /\ thr = [t \in Threads |-> Unborn]
    /\ fg = Idle

DefaultSettings ==
    /\ channel_vars = {1}
    /\ la_enabled_var = FALSE
    /\ digital_channel_vars = {}

\* the GUI is constructed and left alone
GuiIdle == GuiConstructed /\ DefaultSettings /\ batch = NoBatch

-----------------------------------------------------------------------------
(* Text helpers: Python str operations *)

CharAt(s, i) == SubSeq(s, i, i)

Digits == <<"0", "1", "2", "3", "4", "5", "6", "7", "8", "9">>

IsDigit(c) == \E d \in 1..10 : Digits[d] = c

DigitVal(c) == (CHOOSE d \in 1..10 : Digits[d] = c) - 1

IsSpace(c) == c \in {" ", "\n", "\r", "\t"}

AllDigits(s) == \A i \in 1..Len(s) : IsDigit(CharAt(s, i))

RECURSIVE DigitsVal(_)
\* value of a run of decimal digits ("" is 0)
DigitsVal(s) ==
    IF Len(s) = 0 THEN 0
    ELSE 10 * DigitsVal(SubSeq(s, 1, Len(s) - 1)) + DigitVal(CharAt(s, Len(s)))

RECURSIVE Pow10(_)
Pow10(n) == IF n <= 0 THEN 1 ELSE 10 * Pow10(n - 1)

RECURSIVE NatStr(_)
\* str(n) for n >= 0
NatStr(n) == IF n < 10 THEN Digits[n + 1] ELSE NatStr(n \div 10) \o Digits[(n % 10) + 1]

\* str(n) of an int, as an f-string formats it
IntStr(n) == IF n < 0 THEN "-" \o NatStr(0 - n) ELSE NatStr(n)

RECURSIVE LStrip(_)
LStrip(s) == IF Len(s) > 0 /\ IsSpace(CharAt(s, 1)) THEN LStrip(SubSeq(s, 2, Len(s))) ELSE s

RECURSIVE RStrip(_)
RStrip(s) ==
    IF Len(s) > 0 /\ IsSpace(CharAt(s, Len(s))) THEN RStrip(SubSeq(s, 1, Len(s) - 1)) ELSE s

\* str.strip()
Strip(s) == RStrip(LStrip(s))

\* index of the first sep in s, 0 when there is none
Find(s, sep) ==
    IF \E i \in 1..Len(s) : CharAt(s, i) = sep
    THEN CHOOSE i \in 1..Len(s) : CharAt(s, i) = sep /\ \A j \in 1..(i - 1) : CharAt(s, j) # sep
    ELSE 0

RECURSIVE Split(_, _)
\* str.split(sep) for a one-character sep: "".split(",") is [""]
Split(s, sep) ==
    LET i == Find(s, sep)
    IN  IF i = 0 THEN <<s>>
        ELSE <<SubSeq(s, 1, i - 1)>> \o Split(SubSeq(s, i + 1, Len(s)), sep)

\* s.startswith(p)
StartsWith(s, p) == Len(s) >= Len(p) /\ SubSeq(s, 1, Len(p)) = p

\* the slice s[n:] (n >= 0 counts characters from the left)
SliceFrom(s, n) == IF n >= Len(s) THEN "" ELSE SubSeq(s, n + 1, Len(s))

RECURSIVE Join(_, _)
\* sep.join(parts)
Join(parts, sep) ==
    IF Len(parts) = 0 THEN ""
    ELSE IF Len(parts) = 1 THEN parts[1]
    ELSE parts[1] \o sep \o Join(Tail(parts), sep)

-----------------------------------------------------------------------------
(* float(x) and int(x) *)

Scale == Pow10(FracDigits)

\* the modelled float of the integer n
FromInt(n) == n * Scale

\* [+-] prefix of a numeric literal
SignLen(s) == IF Len(s) > 0 /\ CharAt(s, 1) \in {"+", "-"} THEN 1 ELSE 0

\* the literal without its sign
Unsigned(s) == SliceFrom(s, SignLen(s))

\* position of the exponent marker, 0 when there is none
ExpPos(s) ==
    IF \E i \in 1..Len(s) : CharAt(s, i) \in {"e", "E"}
    THEN CHOOSE i \in 1..Len(s) : CharAt(s, i) \in {"e", "E"}
                                   /\ \A j \in 1..(i - 1) : CharAt(s, j) \notin {"e", "E"}
    ELSE 0

\* the text before / after position p of m (all of m / nothing when p = 0)
Before(m, p) == IF p = 0 THEN m ELSE SubSeq(m, 1, p - 1)

After(m, p) == IF p = 0 THEN "" ELSE SliceFrom(m, p)

\* mantissa with its point at p: digits on both sides, at least one digit
MantissaOkAt(m, p) ==
    AllDigits(Before(m, p)) /\ AllDigits(After(m, p)) /\ Len(m) > (IF p = 0 THEN 0 ELSE 1)

MantissaOk(m) == MantissaOkAt(m, Find(m, "."))

\* exponent: optional sign and at least one digit
ExponentOk(e) == Len(Unsigned(e)) > 0 /\ AllDigits(Unsigned(e))

\* unsigned literal with its exponent marker at e
UnsignedOkAt(u, e) == MantissaOk(Before(u, e)) /\ (e = 0 \/ ExponentOk(After(u, e)))

UnsignedOk(u) == UnsignedOkAt(u, ExpPos(u))

\* does float(x) accept x (decimal literals; inf, nan and "_" are not modelled)
FloatOk(x) == UnsignedOk(Unsigned(Strip(x)))

\* -1 for a literal that starts with "-", else 1
Sign(s) == IF Len(s) > 0 /\ CharAt(s, 1) = "-" THEN 0 - 1 ELSE 1

\* num * 10^shift, in 10^-FracDigits units when shift counts from FracDigits (exact
\* for the literals the model draws, which need no more than FracDigits places)
Shifted(num, shift) == IF shift >= 0 THEN num * Pow10(shift) ELSE num \div Pow10(0 - shift)

\* mantissa m with its point at p, times 10^ex
MantissaValAt(m, p, ex) ==
    Shifted(DigitsVal(Before(m, p) \o After(m, p)), FracDigits + ex - Len(After(m, p)))

MantissaVal(m, ex) == MantissaValAt(m, Find(m, "."), ex)

\* value of the exponent text e ("" is 0)
ExponentVal(e) == Sign(e) * DigitsVal(Unsigned(e))

UnsignedValAt(u, e) == MantissaVal(Before(u, e), ExponentVal(After(u, e)))

UnsignedVal(u) == UnsignedValAt(u, ExpPos(u))

SignedVal(s) == Sign(s) * UnsignedVal(Unsigned(s))

\* float(x) for an accepted x, in 10^-FracDigits units
FloatVal(x) == SignedVal(Strip(x))

\* int(f) of a float: truncation toward zero, as an integer
IntOfFloat(v) == IF v >= 0 THEN v \div Scale ELSE 0 - ((0 - v) \div Scale)

\* int(c) of a one-character string
IntOk(c) == Len(c) = 1 /\ IsDigit(c)

-----------------------------------------------------------------------------
(* The instrument's side of a waveform retrieval: the replies it can give *)

\* numeric literals the instrument prints: text s denotes n * 10^-d
Lit(s, n, d) == [s |-> s, n |-> n, d |-> d]

\* the number a literal denotes, in 10^-FracDigits units
LitVal(l) == l.n * Pow10(FracDigits - l.d)

XIncLits == {Lit("0", 0, 0), Lit("1", 1, 0), Lit("-1", -1, 0), Lit("5.0e-01", 5, 1)}

XOrigLits == {Lit("0", 0, 0), Lit("-2.5", -25, 1)}

SampleLits == {Lit("0", 0, 0), Lit("1.0", 1, 0), Lit("-1.5e+00", -15, 1)}

\* the five samples of the documented example block
ExampleSamples ==
    <<Lit("1.0", 1, 0), Lit("2.0", 2, 0), Lit("3.0", 3, 0), Lit("4.0", 4, 0), Lit("5.0", 5, 0)>>

\* sample sequences the instrument may return: every one up to MaxSamples, and the example
SampleSeqs ==
    UNION {[1..n -> SampleLits] : n \in 0..MaxSamples} \cup {ExampleSamples}

\* :WAV:PRE? reply: ten comma-separated fields, x_increment.. at 4 and 5, y_.. at 7, 8, 9
PreambleReply(xi, xo, yi, yo, yr, points) ==
    Join(<<"0", "2", IntStr(points), "1", xi.s, xo.s, "0", yi.s, yo.s, yr.s>>, ",") \o "\n"

LitTexts(samples) == [i \in 1..Len(samples) |-> samples[i].s]

\* how the reply to :WAV:DATA? is framed around the comma-separated samples:
\*   "tmc"     #<n><n digits of payload length><payload>   (IEEE 488.2 definite block)
\*   "rigol9"  #9<9 digits of payload length><payload>
\*   "plain"   <payload>, no header
\*   "count"   #1<sample count>,<payload>   (the form of the documented example)
\*   "count0"  #1<sample count><payload>
\*   "alpha"   #A<payload>   (a header whose second character is no digit)
\*   "hash"    #             (a lone '#', sent with no samples)
Framings == {"tmc", "rigol9", "plain", "count", "count0", "alpha", "hash"}

ZeroPad(s, w) == SubSeq("000000000", 1, w - Len(s)) \o s

BlockReply(samples, framing) ==
    LET payload == Join(LitTexts(samples), ",")
        len == NatStr(Len(payload))
        head == CASE framing = "tmc" -> "#" \o NatStr(Len(len)) \o len
                  [] framing = "rigol9" -> "#9" \o ZeroPad(len, 9)
                  [] framing = "plain" -> ""
                  [] framing = "count" -> "#1" \o NatStr(Len(samples) % 10) \o ","
                  [] framing = "count0" -> "#1" \o NatStr(Len(samples) % 10)
                  [] framing = "alpha" -> "#A"
                  [] framing = "hash" -> "#"
    IN  head \o payload \o "\n"

-----------------------------------------------------------------------------
(* rigol_instrument.py: RigolDHO954.get_waveform_data / get_digital_data *)

Returned(times, values, cmds) == [exc |-> "", times |-> times, values |-> values, written |-> cmds]

Raised(exc, cmds) == [exc |-> exc, times |-> <<>>, values |-> <<>>, written |-> cmds]

\* the outcome of a call that has not been made yet
Pending == Raised("pending", <<>>)

\* preamble = self.query(":WAV:PRE?").split(',')   (query strips the reply)
PreambleFields(preReply) == Split(Strip(preReply), ",")

RECURSIVE FieldExc(_, _)
\* float(preamble[i]) for the Python indices i of order, in that order: the first
\* exception raised, "" when every one parses
FieldExc(preamble, order) ==
    IF Len(order) = 0 THEN ""
    ELSE IF Head(order) + 1 > Len(preamble) THEN "IndexError"
    ELSE IF ~FloatOk(preamble[Head(order) + 1]) THEN "ValueError"
    ELSE FieldExc(preamble, Tail(order))

\* float(preamble[i]) for the Python indices i of idx
FloatFields(preamble, idx) == [i \in idx |-> FloatVal(preamble[i + 1])]

\* the header strip shared by both decoders:
\*   if data_str.startswith('#'): header_len = int(data_str[1]) + 2; data_str = data_str[header_len:]
StripHeaderExc(data_str) ==
    IF ~StartsWith(data_str, "#") THEN ""
    ELSE IF Len(data_str) < 2 THEN "IndexError"
    ELSE IF ~IntOk(CharAt(data_str, 2)) THEN "ValueError"
    ELSE ""

\* a header strip that also skips one separator after the header
HeaderLenSkipsSeparator(data_str) == DigitVal(CharAt(data_str, 2)) + 3

\* a header strip that takes '#' and one character whatever the digit says
HeaderLenIgnoresDigit(data_str) == 2

HeaderLen(data_str) == DigitVal(CharAt(data_str, 2)) + 2

StripHeader(data_str) ==
    IF StartsWith(data_str, "#") THEN SliceFrom(data_str, HeaderLen(data_str)) ELSE data_str

\* a decoder that adds y_origin instead of subtracting it
VoltageAddsOrigin(point, y_increment, y_origin, y_reference) ==
    (point - y_reference + y_origin) * y_increment

\* voltages = [(point - y_reference - y_origin) * y_increment for point in data_points]
Voltage(point, y_increment, y_origin, y_reference) ==
    (point - y_reference - y_origin) * y_increment

\* a decoder that forgets the sample index
TimeAtNoIndex(i, x_increment, x_origin) == x_origin + x_increment

\* a decoder that counts samples from 1
TimeAtOneBased(i, x_increment, x_origin) == x_origin + (i + 1) * x_increment

\* times = [x_origin + i * x_increment for i in range(n)]   (i is 0-based)
TimeAt(i, x_increment, x_origin) == x_origin + i * x_increment

Times(n, x_increment, x_origin) == [k \in 1..n |-> TimeAt(k - 1, x_increment, x_origin)]

\* the three writes and the preamble query that open a retrieval from source
RetrievalCmds(source, points) ==
    <<":WAV:SOUR " \o source, ":WAV:FORM ASC", ":WAV:POIN " \o IntStr(points), ":WAV:PRE?">>

\* a decoder that leaves empty tokens out instead of parsing them
AnalogSeriesSkipsEmpty(cmds, f, tokens) ==
    IF \E i \in 1..Len(tokens) : tokens[i] # "" /\ ~FloatOk(tokens[i])
    THEN Raised("ValueError", cmds)
    ELSE Returned(<<>>, <<>>, cmds)

\* lines 182-187: the tokens of the stripped block to the returned arrays; f holds the
\* preamble's floats by Python index
AnalogSeries(cmds, f, tokens) ==
    IF \E i \in 1..Len(tokens) : ~FloatOk(tokens[i]) THEN Raised("ValueError", cmds)
    ELSE Returned(Times(Len(tokens), f[4], f[5]),
                  [i \in 1..Len(tokens) |-> Voltage(FloatVal(tokens[i]), f[7], f[8], f[9])],
                  cmds)

\* lines 167-187, given the first exception of the preamble floats (preExc) and of the
\* header strip (hdrExc)
AnalogDecode(cmds, preamble, preExc, data_str, hdrExc) ==
    IF preExc # "" THEN Raised(preExc, cmds)
    ELSE IF hdrExc # "" THEN Raised(hdrExc, Append(cmds, ":WAV:DATA?"))
    ELSE AnalogSeries(Append(cmds, ":WAV:DATA?"), FloatFields(preamble, {4, 5, 7, 8, 9}),
                      Split(StripHeader(data_str), ","))

GetWaveformData(channel, points, preReply, rawReply) ==
    AnalogDecode(RetrievalCmds("CHAN" \o IntStr(channel), points),
                 PreambleFields(preReply),
                 FieldExc(PreambleFields(preReply), <<7, 8, 9, 4, 5>>),
                 Strip(rawReply), StripHeaderExc(Strip(rawReply)))

\* lines 324-328
DigitalSeries(cmds, f, tokens) ==
    IF \E i \in 1..Len(tokens) : ~FloatOk(tokens[i]) THEN Raised("ValueError", cmds)
    ELSE Returned(Times(Len(tokens), f[4], f[5]),
                  [i \in 1..Len(tokens) |-> IntOfFloat(FloatVal(tokens[i]))],
                  cmds)

\* lines 312-328
DigitalDecode(cmds, preamble, preExc, data_str, hdrExc) ==
    IF preExc # "" THEN Raised(preExc, cmds)
    ELSE IF hdrExc # "" THEN Raised(hdrExc, Append(cmds, ":WAV:DATA?"))
    ELSE DigitalSeries(Append(cmds, ":WAV:DATA?"), FloatFields(preamble, {4, 5}),
                       Split(StripHeader(data_str), ","))

GetDigitalData(channel, points, preReply, rawReply) ==
    IF ~(0 <= channel /\ channel <= 15) THEN Raised("ValueError", <<>>)
    ELSE DigitalDecode(RetrievalCmds("DIG" \o IntStr(channel), points),
                       PreambleFields(preReply),
                       FieldExc(PreambleFields(preReply), <<4, 5>>),
                       Strip(rawReply), StripHeaderExc(Strip(rawReply)))

-----------------------------------------------------------------------------
(* config.py: class Config *)

\* a value stored in a dict: a non-dictionary value (by its repr) or a dict object
Leaf(v) == [kind |-> "leaf", val |-> v]

Ref(i) == [kind |-> "dict", val |-> i]

\* Config.DEFAULT_CONFIG and its nested dicts, as the objects 1..9
DEFAULT_CONFIG == 1

DefaultHeap ==
    << [instrument |-> Ref(2), gui |-> Ref(3), channels |-> Ref(4), logic_analyzer |-> Ref(5),
        timebase |-> Ref(7), trigger |-> Ref(8), logging |-> Ref(9)],
       [timeout |-> Leaf("10000"), auto_detect |-> Leaf("True"),
        resource_string |-> Leaf("None")],
       [window_size |-> Leaf("1400x900"), theme |-> Leaf("dark"),
        auto_update_rate |-> Leaf("2.0"), default_points |-> Leaf("1000")],
       [default_scale |-> Leaf("1.0"), default_offset |-> Leaf("0.0"),
        default_coupling |-> Leaf("DC"), default_probe |-> Leaf("10.0")],
       [enabled |-> Leaf("False"), default_threshold |-> Leaf("TTL"),
        custom_threshold_level |-> Leaf("1.5"), default_size |-> Leaf("100"),
        default_position |-> Leaf("0"), default_labels |-> Ref(6)],
       [D0 |-> Leaf("D0"), D1 |-> Leaf("D1"), D2 |-> Leaf("D2"), D3 |-> Leaf("D3"),
        D4 |-> Leaf("D4"), D5 |-> Leaf("D5"), D6 |-> Leaf("D6"), D7 |-> Leaf("D7"),
        D8 |-> Leaf("D8"), D9 |-> Leaf("D9"), D10 |-> Leaf("D10"), D11 |-> Leaf("D11"),
        D12 |-> Leaf("D12"), D13 |-> Leaf("D13"), D14 |-> Leaf("D14"), D15 |-> Leaf("D15")],
       [default_scale |-> Leaf("0.001"), default_offset |-> Leaf("0.0")],
       [default_mode |-> Leaf("AUTO"), default_source |-> Leaf("CHAN1"),
        default_level |-> Leaf("0.0"), default_slope |-> Leaf("POS")],
       [level |-> Leaf("INFO"), file |-> Leaf("rigol_gui.log")] >>

\* {}
EmptyDict == <<>>

\* dict.copy(): a new dict object with the same keys and the same values (nested
\* dicts are shared, not copied)
ShallowCopy(h, obj) == Append(h, h[obj])

\* obj[k] = v
Store(h, obj, k, v) ==
    [h EXCEPT ![obj] = [x \in (DOMAIN @) \cup {k} |-> IF x = k THEN v ELSE @[x]]]

RECURSIVE GetAt(_, _, _, _)
\* the loop of get: for k in keys: if isinstance(value, dict) and k in value: value = value[k]
\*                                  else: return default
GetAt(h, value, keys, default) ==
    IF Len(keys) = 0 THEN value
    ELSE IF value.kind = "dict" /\ Head(keys) \in DOMAIN h[value.val]
    THEN GetAt(h, h[value.val][Head(keys)], Tail(keys), default)
    ELSE default

\* a get that returns None for a missing key, whatever default was supplied
GetIgnoresDefault(h, root, key, default) == GetAt(h, Ref(root), Split(key, "."), Leaf("None"))

\* Config.get(key, default) on the instance whose self.config is root
Get(h, root, key, default) == GetAt(h, Ref(root), Split(key, "."), default)

RECURSIVE SetAt(_, _, _, _)
\* the loop of set and its final assignment, config being the value the loop has
\* reached: "k not in config", "config[k] = {}" and "config[keys[-1]] = value" raise
\* TypeError on a str, int, float, bool or None
SetAt(h, cur, keys, value) ==
    IF cur.kind # "dict" THEN [exc |-> "TypeError", heap |-> h]
    ELSE IF Len(keys) = 1 THEN [exc |-> "", heap |-> Store(h, cur.val, keys[1], value)]
    ELSE IF Head(keys) \notin DOMAIN h[cur.val]
    THEN SetAt(Append(Store(h, cur.val, Head(keys), Ref(Len(h) + 1)), EmptyDict),
               Ref(Len(h) + 1), Tail(keys), value)
    ELSE SetAt(h, h[cur.val][Head(keys)], Tail(keys), value)

\* Config.set(key, value): the exception raised ("" when it returns) and the heap left
Set(h, root, key, value) == SetAt(h, Ref(root), Split(key, "."), value)

-----------------------------------------------------------------------------
(* SpecConfig: one Config instance, constructed with no config file (as the
   repository's test constructs it), under set, get and reset_to_defaults *)

\* the default argument the model passes to get: a value no key holds
Default == Leaf("<default>")

\* dot-separated keys the calls use
InputKeys ==
    {"gui.theme", "gui.theme.x", "instrument.timeout.x.y", "gui", "gui.zoom",
     "a.b.c", "a.b", "a", "test.value"}

\* values the set calls store
InputValues == {Leaf("hello"), Leaf("42")}

NoOp == [op |-> "none", key |-> "", value |-> Default, exc |-> "", result |-> Default]

\* __init__: self.config = self.DEFAULT_CONFIG.copy(); self.load() finds no file
ConfigInit ==
    /\ heap = ShallowCopy(DefaultHeap, DEFAULT_CONFIG)
    /\ config = Len(DefaultHeap) + 1
    /\ lastOp = NoOp
    /\ nOps = 0
    /\ everSet = {}

\* what a set call leaves, r being what Set computed
SetOutcome(key, value, r) ==
    /\ heap' = r.heap
    /\ lastOp' = [op |-> "set", key |-> key, value |-> value, exc |-> r.exc, result |-> Default]
    /\ everSet' = IF r.exc = "" THEN everSet \cup {key} ELSE everSet

CallSet ==
    /\ nOps < MaxConfigOps
    /\ \E key \in InputKeys, value \in InputValues :
          SetOutcome(key, value, Set(heap, config, key, value))
    /\ nOps' = nOps + 1
    /\ UNCHANGED config

CallGet ==
    /\ \E key \in InputKeys :
          lastOp' = [op |-> "get", key |-> key, value |-> Default, exc |-> "",
                     result |-> Get(heap, config, key, Default)]
    /\ UNCHANGED <<heap, config, nOps, everSet>>

\* reset_to_defaults: self.config = self.DEFAULT_CONFIG.copy()
CallResetToDefaults ==
    /\ nOps < MaxConfigOps
    /\ heap' = ShallowCopy(heap, DEFAULT_CONFIG)
    /\ config' = Len(heap) + 1
    /\ lastOp' = [NoOp EXCEPT !.op = "reset"]
    /\ nOps' = nOps + 1
    /\ UNCHANGED everSet

ConfigNext ==
    \/ (CallSet /\ UNCHANGED <<decodeVars, guiVars, settingVars, batch>>)
    \/ (CallGet /\ UNCHANGED <<decodeVars, guiVars, settingVars, batch>>)
    \/ (CallResetToDefaults /\ UNCHANGED <<decodeVars, guiVars, settingVars, batch>>)

\* no decoder call is made in this specification
DecodeIdle ==
    /\ call = [kind |-> "none"]
    /\ ret = Pending

ConfigSpecInit == ConfigInit /\ DecodeIdle /\ GuiIdle

SpecConfig == ConfigSpecInit /\ [][ConfigNext]_vars

-----------------------------------------------------------------------------
(* SpecDecode: each decoder applied once to every modelled pair of replies *)

\* what the instrument holds when it answers: the numbers behind its two replies
Scenario(kind, channel, points, xi, xo, yi, yo, yr, samples, framing) ==
    [kind |-> kind, channel |-> channel, points |-> points,
     preamble |-> PreambleReply(xi, xo, yi, yo, yr, points),
     raw |-> BlockReply(samples, framing), framing |-> framing,
     xi |-> LitVal(xi), xo |-> LitVal(xo), yi |-> LitVal(yi), yo |-> LitVal(yo),
     yr |-> LitVal(yr), samples |-> [i \in 1..Len(samples) |-> LitVal(samples[i])]]

\* (channel, points) of the analog and of the digital calls
AnalogCalls == {<<1, 1000>>, <<4, 1>>}

DigitalCalls == {<<0, 1000>>, <<15, 1>>}

\* (y_increment, y_origin, y_reference) the analog preamble may carry
YLits ==
    {<<Lit("1", 1, 0), Lit("0", 0, 0), Lit("0", 0, 0)>>,
     <<Lit("0.5", 5, 1), Lit("1", 1, 0), Lit("2.0e+00", 2, 0)>>,
     <<Lit("-2", -2, 0), Lit("0", 0, 0), Lit("-3", -3, 0)>>}

\* the blocks the instrument may send: samples and their framing
Blocks ==
    {b \in SampleSeqs \X Framings : b[2] = "hash" => b[1] = <<>>}

AnalogScenarios ==
    {Scenario("analog", cp[1], cp[2], xi, xo, y[1], y[2], y[3], b[1], b[2]) :
        cp \in AnalogCalls, xi \in XIncLits, xo \in XOrigLits, y \in YLits, b \in Blocks}

DigitalScenarios ==
    {Scenario("digital", cp[1], cp[2], xi, xo, Lit("0", 0, 0), Lit("0", 0, 0), Lit("0", 0, 0),
              b[1], b[2]) :
        cp \in DigitalCalls, xi \in XIncLits, xo \in XOrigLits, b \in Blocks}

DecodeInit ==
    /\ call \in AnalogScenarios \cup DigitalScenarios
    /\ ret = Pending
    /\ ConfigInit
    /\ GuiIdle

CallGetWaveformData ==
    /\ ret = Pending
    /\ call.kind = "analog"
    /\ ret' = GetWaveformData(call.channel, call.points, call.preamble, call.raw)
    /\ UNCHANGED call

CallGetDigitalData ==
    /\ ret = Pending
    /\ call.kind = "digital"
    /\ ret' = GetDigitalData(call.channel, call.points, call.preamble, call.raw)
    /\ UNCHANGED call

DecodeNext ==
    \/ (CallGetWaveformData /\ UNCHANGED <<configVars, guiVars, settingVars, batch>>)
    \/ (CallGetDigitalData /\ UNCHANGED <<configVars, guiVars, settingVars, batch>>)

SpecDecode == DecodeInit /\ [][DecodeNext]_vars

-----------------------------------------------------------------------------
(* Claims about the decoders (SpecDecode) *)

Decoded == ret # Pending

ReturnedOk == Decoded /\ ret.exc = ""

\* the preamble of the documented example: x_increment=1, x_origin=0, y_increment=1,
\* y_origin=0, y_reference=0
ExamplePreamble ==
    /\ call.kind = "analog"
    /\ call.xi = FromInt(1) /\ call.xo = 0
    /\ call.yi = FromInt(1) /\ call.yo = 0 /\ call.yr = 0

ExampleTimes == <<FromInt(0), FromInt(1), FromInt(2), FromInt(3), FromInt(4)>>

\* voltages are products of two floats: 10^-(2*FracDigits) units
ExampleValues ==
    <<FromInt(1) * Scale, FromInt(2) * Scale, FromInt(3) * Scale, FromInt(4) * Scale,
      FromInt(5) * Scale>>

ExampleBlock == "#15,1.0,2.0,3.0,4.0,5.0"

ExampleBlockNoComma == "#151.0,2.0,3.0,4.0,5.0"

\* C1 as stated: decoding "#15,1.0,2.0,3.0,4.0,5.0" with the example preamble through
\* get_waveform_data yields times [0,1,2,3,4] and values [1,2,3,4,5] exactly.
C1_ExampleDecodes ==
    (Decoded /\ ExamplePreamble /\ Strip(call.raw) = ExampleBlock)
        => (ret.exc = "" /\ ret.times = ExampleTimes /\ ret.values = ExampleValues)

\* C1 amended: on "#15,1.0,2.0,3.0,4.0,5.0" get_waveform_data raises ValueError (the
\* strip of 2 + 1 characters leaves ",1.0,..." whose first token is empty) and returns
\* no series; on "#151.0,2.0,3.0,4.0,5.0", the same block without the comma after the
\* header, it yields times [0,1,2,3,4] and values [1,2,3,4,5] exactly.
C1_ExampleDecodesWithoutComma ==
    (Decoded /\ ExamplePreamble)
        => /\ Strip(call.raw) = ExampleBlock
                => (ret.exc = "ValueError" /\ ret.times = <<>> /\ ret.values = <<>>)
           /\ Strip(call.raw) = ExampleBlockNoComma
                => (ret.exc = "" /\ ret.times = ExampleTimes /\ ret.values = ExampleValues)

C1_Witness ==
    /\ ReturnedOk /\ ExamplePreamble
    /\ Strip(call.raw) = ExampleBlockNoComma
    /\ ret.times = ExampleTimes

StrictlyIncreasing(seq) == \A i, j \in 1..Len(seq) : i < j => seq[i] < seq[j]

\* C2 as stated: whenever a decoder returns, times and values have the same length and
\* the time sequence is strictly increasing.
C2_TimesIncreasing ==
    ReturnedOk => (Len(ret.times) = Len(ret.values) /\ StrictlyIncreasing(ret.times))

\* C2 amended: whenever a decoder returns, times and values have the same length, and
\* the time sequence is strictly increasing when the preamble's x_increment is positive
\* (it is constant for x_increment = 0 and strictly decreasing for a negative one).
C2_TimesIncreasingForPositiveStep ==
    ReturnedOk =>
        /\ Len(ret.times) = Len(ret.values)
        /\ call.xi > 0 => StrictlyIncreasing(ret.times)
        /\ call.xi = 0 => \A i \in 1..Len(ret.times) : ret.times[i] = ret.times[1]
        /\ call.xi < 0 => \A i, j \in 1..Len(ret.times) : i < j => ret.times[i] > ret.times[j]

C2_Witness ==
    /\ ReturnedOk /\ call.xi > 0 /\ Len(ret.times) >= 2
    /\ ret.times[1] < ret.times[2]

\* C9: for analog channels every returned value is
\* (raw[i] - y_reference - y_origin) * y_increment, raw[i] the i-th sample of the block
\* and the constants the preamble's fields 9, 8 and 7.
C9_VoltageFormula ==
    (ReturnedOk /\ call.kind = "analog") =>
        /\ Len(ret.values) = Len(call.samples)
        /\ \A i \in 1..Len(call.samples) :
              ret.values[i] = (call.samples[i] - call.yr - call.yo) * call.yi

C9_Witness ==
    /\ ReturnedOk /\ call.kind = "analog"
    /\ Len(ret.values) >= 2
    /\ call.yo # 0 /\ call.yr # 0 /\ call.yi # FromInt(1)
    /\ ret.values[2] # ret.values[1]

\* C10: for both decoders time[i] = x_origin + i * x_increment for every i in [0, N),
\* x_increment and x_origin the preamble's fields 4 and 5 and N the number of samples
\* parsed from the block, not the requested point count.
C10_TimeFormula ==
    ReturnedOk =>
        /\ Len(ret.times) = Len(call.samples)
        /\ \A i \in 0..(Len(call.samples) - 1) : ret.times[i + 1] = call.xo + i * call.xi

C10_Witness ==
    /\ ReturnedOk /\ call.kind = "digital"
    /\ Len(ret.times) = 2 /\ call.points # 2
    /\ call.xi # 0 /\ call.xo # 0

-----------------------------------------------------------------------------
(* Claims about Config (SpecConfig) *)

\* C7: set/get round trip: for every dot-separated key k, including keys whose prefix
\* already names an existing non-dictionary value, and every value v, after set(k, v)
\* get(k) returns v.
C7_SetGetRoundTrip ==
    lastOp.op = "set" => Get(heap, config, lastOp.key, Default) = lastOp.value

\* the segments of key p are the first segments of key q
KeyPrefix(p, q) ==
    /\ Len(Split(p, ".")) <= Len(Split(q, "."))
    /\ SubSeq(Split(q, "."), 1, Len(Split(p, "."))) = Split(p, ".")

\* key is a key or a section of the built-in defaults
IsBuiltin(key) == Get(DefaultHeap, DEFAULT_CONFIG, key, Default) # Default

\* a set call stored key, or a key that extends it
StoredBySet(key) == \E k \in everSet : KeyPrefix(key, k)

\* a proper prefix of key names a non-dictionary value of the stored configuration
ThroughLeaf(key) ==
    \E n \in 1..(Len(Split(key, ".")) - 1) :
        /\ Get(heap, config, Join(SubSeq(Split(key, "."), 1, n), "."), Default).kind = "leaf"
        /\ Get(heap, config, Join(SubSeq(Split(key, "."), 1, n), "."), Default) # Default

GetLeftConfigAlone == [][lastOp'.op = "get" => (heap' = heap /\ config' = config)]_vars

-----------------------------------------------------------------------------
(* rigol_gui.py: the order in which update_waveform visits the channels *)

\* for ch in range(1, 5)
AnalogChannels == 1..4

\* for d in range(16)
DigitalChannels == 0..15

\* update_waveform visits slots 1..LastSlot: the analog channels, then the digital ones
LastSlot == Cardinality(AnalogChannels) + Cardinality(DigitalChannels)

SlotKind(p) == IF p <= Cardinality(AnalogChannels) THEN "analog" ELSE "digital"

\* the channel number of slot p: ch, or d
SlotChannel(p) ==
    IF p <= Cardinality(AnalogChannels) THEN p ELSE p - Cardinality(AnalogChannels) - 1

\* is the channel of slot p read: channel_vars[ch], or la_enabled_var and digital_channel_vars[d]
SlotEnabled(p) ==
    IF SlotKind(p) = "analog" THEN SlotChannel(p) \in channel_vars
    ELSE la_enabled_var /\ SlotChannel(p) \in digital_channel_vars

EnabledSlots == {p \in 1..LastSlot : SlotEnabled(p)}

\* the first enabled slot from p on, LastSlot + 1 when the loops are over
NextSlot(p) ==
    IF \E q \in p..LastSlot : SlotEnabled(q)
    THEN CHOOSE q \in p..LastSlot : SlotEnabled(q) /\ \A r \in p..(q - 1) : ~SlotEnabled(r)
    ELSE LastSlot + 1

\* int(self.points_var.get()): an optional sign and decimal digits
PointsOk(s) == Len(Unsigned(Strip(s))) > 0 /\ AllDigits(Unsigned(Strip(s)))

\* what the Points box may hold: a combobox value, free text
PointsInputs == {"1000", "1e3"}

\* does int(...) accept the text: the outcomes over PointsInputs
PointsOutcomes == {PointsOk(s) : s \in PointsInputs}

\* float(self.update_rate_var.get()) is accepted, 1.0 / rate is defined and sleep takes it
RateOk(s) == FloatOk(s) /\ FloatVal(s) > 0

\* what the Rate box may hold: combobox values, zero, a negative rate, free text
RateInputs == {"2.0", "0.5", "0", "-1", "fast"}

\* does the sleep of 1 / rate take place: the outcomes over RateInputs
RateOutcomes == {RateOk(s) : s \in RateInputs}

\* the instrument I/O of one retrieval, in order
AnalogIO == <<"write :WAV:SOUR", "write :WAV:FORM", "write :WAV:POIN", "write :WAV:PRE?",
              "read", "write :WAV:DATA?", "read_raw">>

DigitalIO == <<"write :WAV:SOUR", "write :WAV:FORM", "write :WAV:POIN", "write :WAV:PRE?",
               "read", "write :WAV:DATA?", "read_raw">>

SlotIO(p) == IF SlotKind(p) = "analog" THEN AnalogIO ELSE DigitalIO

\* does the operation wait for a response of the instrument
IsRead(op) == op \in {"read", "read_raw"}

\* measurements = ['FREQ', 'VPP', 'VMAX', 'VMIN', 'VRMS', 'VAVG', 'PER', 'PWID']
Measurements == <<"FREQ", "VPP", "VMAX", "VMIN", "VRMS", "VAVG", "PER", "PWID">>

-----------------------------------------------------------------------------
(* rigol_gui.py: the auto_update_loop threads *)

At(t, pc) == thr[t].pc = pc

Alive(t) == thr[t].pc \notin {"unborn", "done"}

\* a loop that never looks at the flag
LoopConditionIgnoresFlag == TRUE

\* while self.is_running
LoopCondition == is_running

\* the loop test passes: the body starts a cycle
LoopEnter(t) ==
    /\ At(t, "check")
    /\ LoopCondition
    /\ thr' = [thr EXCEPT ![t].pc = "update", ![t].late = ~is_running]
    /\ UNCHANGED <<scope, sessions, closed, is_running, auto_update_var, update_thread, fg>>

\* the loop test fails: the thread function returns
LoopExit(t) ==
    /\ At(t, "check")
    /\ ~LoopCondition
    /\ thr' = [thr EXCEPT ![t].pc = "done"]
    /\ UNCHANGED <<scope, sessions, closed, is_running, auto_update_var, update_thread, fg>>

\* update_waveform up to its loops: return without a scope; int(points) may raise, which
\* the outer except logs
UpdateWaveformBegin(t) ==
    /\ At(t, "update")
    /\ \E parsed \in PointsOutcomes :
          thr' = IF scope # 0 /\ parsed
                 THEN [thr EXCEPT ![t].pc = "batch", ![t].pos = NextSlot(1), ![t].step = 0]
                 ELSE [thr EXCEPT ![t].pc = "rate"]
    /\ UNCHANGED <<scope, sessions, closed, is_running, auto_update_var, update_thread, fg>>

\* the session a thread talks to: self.scope when the retrieval starts, then the object
\* whose method is running
Session(t) == IF thr[t].step = 0 THEN scope ELSE thr[t].inst

\* the thread after the retrieval of its slot ended, by return or by exception
NextChannel(r) == [r EXCEPT !.pos = NextSlot(r.pos + 1), !.step = 0, !.inst = 0]

\* the thread after one more I/O operation on session s went through
AfterIO(r, s) ==
    IF r.step + 1 = Len(SlotIO(r.pos)) THEN NextChannel(r)
    ELSE [r EXCEPT !.step = r.step + 1, !.inst = s]

\* one write or read of get_waveform_data / get_digital_data goes through; after the
\* last one the series is decoded and set_data updates the trace
ChannelIO(t) ==
    /\ At(t, "batch")
    /\ thr[t].pos <= LastSlot
    /\ Session(t) # 0
    /\ Session(t) \notin closed
    /\ thr' = [thr EXCEPT ![t] = AfterIO(thr[t], Session(t))]
    /\ UNCHANGED <<scope, sessions, closed, is_running, auto_update_var, update_thread, fg>>

\* a retrieval whose exception leaves update_waveform and reaches the except of the loop
ChannelErrorPropagates(t) ==
    /\ At(t, "batch")
    /\ thr[t].pos <= LastSlot
    /\ thr' = [thr EXCEPT ![t].pc = "errsleep", ![t].pos = 0, ![t].step = 0, ![t].inst = 0]
    /\ UNCHANGED <<scope, sessions, closed, is_running, auto_update_var, update_thread, fg>>

\* the retrieval raises (no scope, closed session, timeout, reply that does not parse):
\* the except of the channel logs it and the loop goes on
ChannelError(t) ==
    /\ At(t, "batch")
    /\ thr[t].pos <= LastSlot
    /\ thr' = [thr EXCEPT ![t] = NextChannel(thr[t])]
    /\ UNCHANGED <<scope, sessions, closed, is_running, auto_update_var, update_thread, fg>>

\* relim, autoscale_view, canvas.draw(); update_waveform returns
Redraw(t) ==
    /\ At(t, "batch")
    /\ thr[t].pos > LastSlot
    /\ thr' = [thr EXCEPT ![t].pc = "rate", ![t].pos = 0]
    /\ UNCHANGED <<scope, sessions, closed, is_running, auto_update_var, update_thread, fg>>

\* rate = float(...); time.sleep(1.0 / rate), or the except: log and time.sleep(1)
RateSleep(t) ==
    /\ At(t, "rate")
    /\ \E slept \in RateOutcomes :
          thr' = [thr EXCEPT ![t].pc = IF slept THEN "sleep" ELSE "errsleep"]
    /\ UNCHANGED <<scope, sessions, closed, is_running, auto_update_var, update_thread, fg>>

\* the sleep ends: the cycle is complete and the loop test comes next
Wake(t) ==
    /\ thr[t].pc \in {"sleep", "errsleep"}
    /\ thr' = [thr EXCEPT ![t].pc = "check", ![t].late = FALSE,
                          ![t].after = IF is_running THEN 0 ELSE thr[t].after + 1]
    /\ UNCHANGED <<scope, sessions, closed, is_running, auto_update_var, update_thread, fg>>

ThreadStep(t) ==
    \/ LoopEnter(t)
    \/ LoopExit(t)
    \/ UpdateWaveformBegin(t)
    \/ ChannelIO(t)
    \/ ChannelError(t)
    \/ Redraw(t)
    \/ RateSleep(t)
    \/ Wake(t)

-----------------------------------------------------------------------------
(* rigol_gui.py: the callbacks of the Tk main thread *)

\* the thread object the next Thread(...) call makes
NewThread == CHOOSE t \in Threads : At(t, "unborn") /\ \A s \in 1..(t - 1) : ~At(s, "unborn")

\* toggle_auto_update with the box checked: set the flag, start a new thread
ToggleAutoUpdateOn ==
    /\ fg = Idle
    /\ ~auto_update_var
    /\ \E t \in Threads : At(t, "unborn")
    /\ auto_update_var' = TRUE
    /\ is_running' = TRUE
    /\ update_thread' = NewThread
    /\ thr' = [t \in Threads |->
                  IF t = NewThread THEN [Unborn EXCEPT !.pc = "check"]
                  ELSE [thr[t] EXCEPT !.after = 0]]
    /\ UNCHANGED <<scope, sessions, closed, fg>>

\* toggle_auto_update with the box unchecked: clear the flag
ToggleAutoUpdateOff ==
    /\ fg = Idle
    /\ auto_update_var
    /\ auto_update_var' = FALSE
    /\ is_running' = FALSE
    /\ UNCHANGED <<scope, sessions, closed, update_thread, thr, fg>>

\* connect_scope up to the *IDN? query RigolDHO954.__init__ sends on the new session
ConnectBegin ==
    /\ fg = Idle
    /\ sessions < MaxSessions
    /\ sessions' = sessions + 1
    /\ fg' = [Idle EXCEPT !.pc = "conn"]
    /\ UNCHANGED <<scope, closed, is_running, auto_update_var, update_thread, thr>>

\* the reply arrives and self.scope is the new object, or __init__ raises
ConnectEnd ==
    /\ fg.pc = "conn"
    /\ \E ok \in BOOLEAN : scope' = IF ok THEN sessions ELSE scope
    /\ fg' = Idle
    /\ UNCHANGED <<sessions, closed, is_running, auto_update_var, update_thread, thr>>

\* disconnect_scope: is_running = False; time.sleep(0.5)
DisconnectBegin ==
    /\ fg = Idle
    /\ scope # 0
    /\ is_running' = FALSE
    /\ fg' = [Idle EXCEPT !.pc = "disc"]
    /\ UNCHANGED <<scope, sessions, closed, auto_update_var, update_thread, thr>>

\* disconnect_scope: self.scope.close(); self.scope = None
DisconnectEnd ==
    /\ fg.pc = "disc"
    /\ closed' = closed \cup {scope}
    /\ scope' = 0
    /\ fg' = Idle
    /\ UNCHANGED <<sessions, is_running, auto_update_var, update_thread, thr>>

\* the measurement the loops of update_measurements reach from channel ch on
FirstMeasurement(ch) ==
    IF \E c \in AnalogChannels : c >= ch /\ c \in channel_vars
    THEN [pc |-> "meas_w", k |-> 1,
          ch |-> CHOOSE c \in AnalogChannels :
                    /\ c >= ch /\ c \in channel_vars
                    /\ \A b \in ch..(c - 1) : b \notin channel_vars]
    ELSE Idle

\* the main thread after measurement f.k of channel f.ch
NextMeasurement(f) ==
    IF f.k < Len(Measurements) THEN [f EXCEPT !.pc = "meas_w", !.k = f.k + 1]
    ELSE FirstMeasurement(f.ch + 1)

\* update_measurements is called with a scope
UpdateMeasurements ==
    /\ fg = Idle
    /\ scope # 0
    /\ fg' = FirstMeasurement(1)
    /\ UNCHANGED <<scope, sessions, closed, is_running, auto_update_var, update_thread, thr>>

\* measure: the write of the query goes out, or raises ("Error" is shown)
MeasureWrite ==
    /\ fg.pc = "meas_w"
    /\ \E ok \in BOOLEAN :
          fg' = IF ok THEN [fg EXCEPT !.pc = "meas_r"] ELSE NextMeasurement(fg)
    /\ UNCHANGED <<scope, sessions, closed, is_running, auto_update_var, update_thread, thr>>

\* measure: the read of the query returns or raises; the value or "Error" is shown
MeasureRead ==
    /\ fg.pc = "meas_r"
    /\ fg' = NextMeasurement(fg)
    /\ UNCHANGED <<scope, sessions, closed, is_running, auto_update_var, update_thread, thr>>

-----------------------------------------------------------------------------
(* Spec, FairSpec: the GUI with its threads *)

\* the checkbox settings the runs start from: the defaults, and CH1 with D15
GuiSettings ==
    {[analog |-> {1}, la |-> FALSE, digital |-> {}],
     [analog |-> {1}, la |-> TRUE, digital |-> {15}]}

GuiInit ==
    /\ GuiConstructed
    /\ \E s \in GuiSettings :
          /\ channel_vars = s.analog
          /\ la_enabled_var = s.la
          /\ digital_channel_vars = s.digital
    /\ batch = NoBatch
    /\ ConfigInit
    /\ DecodeIdle

\* one step of thread t in the whole state
PollingStep(t) == ThreadStep(t) /\ UNCHANGED <<decodeVars, configVars, settingVars, batch>>

Next ==
    \/ \E t \in Threads : PollingStep(t)
    \/ (ToggleAutoUpdateOn /\ UNCHANGED <<decodeVars, configVars, settingVars, batch>>)
    \/ (ToggleAutoUpdateOff /\ UNCHANGED <<decodeVars, configVars, settingVars, batch>>)
    \/ (ConnectBegin /\ UNCHANGED <<decodeVars, configVars, settingVars, batch>>)
    \/ (ConnectEnd /\ UNCHANGED <<decodeVars, configVars, settingVars, batch>>)
    \/ (DisconnectBegin /\ UNCHANGED <<decodeVars, configVars, settingVars, batch>>)
    \/ (DisconnectEnd /\ UNCHANGED <<decodeVars, configVars, settingVars, batch>>)
    \/ (UpdateMeasurements /\ UNCHANGED <<decodeVars, configVars, settingVars, batch>>)
    \/ (MeasureWrite /\ UNCHANGED <<decodeVars, configVars, settingVars, batch>>)
    \/ (MeasureRead /\ UNCHANGED <<decodeVars, configVars, settingVars, batch>>)

Spec == GuiInit /\ [][Next]_vars

\* the GUI with the callbacks that write is_running, start a thread or open and close
\* a session, from the default checkbox settings
LoopInit ==
    /\ GuiConstructed
    /\ DefaultSettings
    /\ batch = NoBatch
    /\ ConfigInit
    /\ DecodeIdle

LoopNext ==
    \/ \E t \in Threads : PollingStep(t)
    \/ (ToggleAutoUpdateOn /\ UNCHANGED <<decodeVars, configVars, settingVars, batch>>)
    \/ (ToggleAutoUpdateOff /\ UNCHANGED <<decodeVars, configVars, settingVars, batch>>)
    \/ (ConnectBegin /\ UNCHANGED <<decodeVars, configVars, settingVars, batch>>)
    \/ (ConnectEnd /\ UNCHANGED <<decodeVars, configVars, settingVars, batch>>)
    \/ (DisconnectBegin /\ UNCHANGED <<decodeVars, configVars, settingVars, batch>>)
    \/ (DisconnectEnd /\ UNCHANGED <<decodeVars, configVars, settingVars, batch>>)

\* a started thread is scheduled again and again: a sleep ends, an instrument read
\* returns or times out
FairSpec ==
    LoopInit /\ [][LoopNext]_vars /\ \A t \in Threads : WF_thr(PollingStep(t))

-----------------------------------------------------------------------------
(* Claims about the threads of the GUI (Spec, FairSpec) *)

\* a thread inside get_waveform_data / get_digital_data, its first write done
MidRetrieval(t) == At(t, "batch") /\ thr[t].step > 0

\* threads whose query or data request is written and whose response is not read yet
InFlightThreads ==
    {t \in Threads : MidRetrieval(t) /\ IsRead(SlotIO(thr[t].pos)[thr[t].step + 1])}

\* the main thread has written a query and has not read its response yet
ForegroundInFlight == fg.pc \in {"conn", "meas_r"}

\* C3: at most one command/response exchange with the instrument is in flight, and no
\* exchange of the main thread falls inside the retrieval sequence of a polling thread.
C3_OneExchangeInFlight ==
    /\ Cardinality(InFlightThreads) + (IF ForegroundInFlight THEN 1 ELSE 0) <= 1
    /\ ~(ForegroundInFlight /\ \E t \in Threads : MidRetrieval(t))

\* C4: whatever the Auto Update toggles, connects and disconnects, at most one
\* auto_update_loop thread is running.
C4_SinglePollingThread == Cardinality({t \in Threads : Alive(t)}) <= 1

\* no cycle was started with the flag cleared, and since the flag was cleared no thread
\* completed more than the cycle it was in
AtMostOneCycleAfterClear ==
    \A t \in Threads : ~thr[t].late /\ (~is_running => thr[t].after <= 1)

AllStopped == \A t \in Threads : ~Alive(t)

\* C5: once is_running is cleared and stays cleared, a polling loop starts no new cycle,
\* completes at most the cycle in progress, and terminates.
C5_StopsAfterClear ==
    /\ []AtMostOneCycleAfterClear
    /\ (<>[](~is_running) => <>[]AllStopped)

\* a loop has completed its cycle in progress after the clear and has returned
C5_Witness ==
    /\ ~is_running
    /\ \E t \in Threads : At(t, "done") /\ thr[t].after = 1

-----------------------------------------------------------------------------
(* SpecBatch: one call of update_waveform, from every modelled checkbox setting *)

\* digital channels whose checkbox the runs may find set
DigitalChoices == {0, 15}

BatchInit ==
    /\ scope \in {0, 1}
    /\ sessions = scope
    /\ closed = {}
    /\ is_running = FALSE
    /\ auto_update_var = FALSE
    /\ update_thread = 0
    /\ thr = [t \in Threads |-> Unborn]
    /\ fg = Idle
    /\ channel_vars \in SUBSET AnalogChannels
    /\ la_enabled_var \in BOOLEAN
    /\ digital_channel_vars \in SUBSET DigitalChoices
    /\ batch = [NoBatch EXCEPT !.pc = "start"]
    /\ ConfigInit
    /\ DecodeIdle

\* the call after the retrieval of its slot returned and set_data updated the trace
AfterUpdate(b) ==
    [b EXCEPT !.requested = @ \cup {b.pos}, !.updated = @ \cup {b.pos},
              !.pos = NextSlot(b.pos + 1)]

\* a call that gives up at the first failure
AfterFailureAborts(b) ==
    [b EXCEPT !.requested = @ \cup {b.pos}, !.logged = @ \cup {b.pos}, !.pc = "done"]

\* the call after the retrieval of its slot raised: the except logs, the loop goes on
AfterFailure(b) ==
    [b EXCEPT !.requested = @ \cup {b.pos}, !.logged = @ \cup {b.pos},
              !.pos = NextSlot(b.pos + 1)]

\* update_waveform up to its loops: return without a scope; int(points) may raise, which
\* the outer except logs
BatchBegin ==
    /\ batch.pc = "start"
    /\ \E parsed \in PointsOutcomes :
          batch' = IF scope # 0 /\ parsed
                   THEN [batch EXCEPT !.pc = "loop", !.pos = NextSlot(1)]
                   ELSE [batch EXCEPT !.pc = "done"]

\* one pass of a loop body for an enabled channel: the retrieval returns or raises
BatchChannel ==
    /\ batch.pc = "loop"
    /\ batch.pos <= LastSlot
    /\ \E ok \in BOOLEAN : batch' = IF ok THEN AfterUpdate(batch) ELSE AfterFailure(batch)

\* relim, autoscale_view, canvas.draw()
BatchRedraw ==
    /\ batch.pc = "loop"
    /\ batch.pos > LastSlot
    /\ batch' = [batch EXCEPT !.pc = "done", !.redrawn = TRUE]

BatchNext ==
    \/ (BatchBegin /\ UNCHANGED <<decodeVars, configVars, guiVars, settingVars>>)
    \/ (BatchChannel /\ UNCHANGED <<decodeVars, configVars, guiVars, settingVars>>)
    \/ (BatchRedraw /\ UNCHANGED <<decodeVars, configVars, guiVars, settingVars>>)

SpecBatch == BatchInit /\ [][BatchNext]_vars

\* C6: in one update_waveform batch where the read of some enabled channel failed, every
\* enabled analog and digital channel was requested, each failure was logged, every
\* other enabled channel had its trace updated, and the batch reached the redraw.
C6_FailureSkipsOneChannel ==
    (batch.pc = "done" /\ batch.logged # {}) =>
        /\ batch.redrawn
        /\ batch.requested = EnabledSlots
        /\ batch.updated = EnabledSlots \ batch.logged

\* a finished batch where an analog read failed and a later digital trace was updated
C6_Witness ==
    /\ batch.pc = "done"
    /\ \E p \in batch.logged, q \in batch.updated :
          SlotKind(p) = "analog" /\ SlotKind(q) = "digital"

-----------------------------------------------------------------------------
(* More claims about the decoders (SpecDecode) *)

\* the block as the decoder sees it: raw_data.decode('ascii').strip()
BlockText == Strip(call.raw)

\* the block starts with '#' and no integer can be read from the character after it
BadHeader ==
    /\ StartsWith(BlockText, "#")
    /\ (Len(BlockText) < 2 \/ ~IsDigit(CharAt(BlockText, 2)))

\* C11: decoding fails with an error and returns no series whenever the block carries
\* zero samples or the character after '#' cannot be parsed as an integer.
C11_DecodeFails ==
    (Decoded /\ (Len(call.samples) = 0 \/ BadHeader)) =>
        /\ ret.exc \in {"ValueError", "IndexError"}
        /\ ret.times = <<>>
        /\ ret.values = <<>>

\* a block of zero samples behind a well-formed header was decoded, and the decoder raised
C11_Witness ==
    /\ Decoded
    /\ call.framing = "tmc"
    /\ Len(call.samples) = 0
    /\ ret.exc = "ValueError"

\* s without its first n characters (all of them when s is shorter)
Drop(s, n) == SubSeq(s, n + 1, Len(s))

\* the block without '#', the digit d after it and d more characters, or the whole
\* block when it does not start with '#'
Remainder ==
    IF StartsWith(BlockText, "#")
    THEN Drop(BlockText, 2 + DigitVal(CharAt(BlockText, 2)))
    ELSE BlockText

\* the value the decoder of the call returns for the sample text x
ValueOf(x) ==
    IF call.kind = "analog"
    THEN Voltage(FloatVal(x), call.yi, call.yo, call.yr)
    ELSE IntOfFloat(FloatVal(x))

\* C12: when the block starts with '#' the decoder removes exactly 2 + d leading
\* characters, d being the digit after '#', and parses only the remainder as samples;
\* when the block does not start with '#', nothing is removed.
C12_HeaderStrip ==
    (Decoded /\ ~BadHeader) =>
        LET tokens == Split(Remainder, ",")
        IN  /\ ret.exc = "" <=> \A i \in 1..Len(tokens) : FloatOk(tokens[i])
            /\ ret.exc = "" =>
                  /\ Len(ret.values) = Len(tokens)
                  /\ \A i \in 1..Len(tokens) : ret.values[i] = ValueOf(tokens[i])

\* a block with a two-character length field was decoded and gave its two samples
C12_Witness ==
    /\ ReturnedOk
    /\ call.framing = "tmc"
    /\ Len(call.samples) = 2
    /\ CharAt(BlockText, 2) = "2"
    /\ Len(ret.values) = 2

\* C18: for digital channels every returned value is the integer 0 or 1.
C18_DigitalValuesAreBits ==
    (ReturnedOk /\ call.kind = "digital") =>
        \A i \in 1..Len(ret.values) : ret.values[i] \in {0, 1}

-----------------------------------------------------------------------------
(* rigol_instrument.py: RigolDHO954.__init__ *)

LowerCase == "abcdefghijklmnopqrstuvwxyz"

UpperCase == "ABCDEFGHIJKLMNOPQRSTUVWXYZ"

\* c.upper() of one character
UpperChar(c) ==
    IF \E i \in 1..Len(LowerCase) : CharAt(LowerCase, i) = c
    THEN CharAt(UpperCase, CHOOSE i \in 1..Len(LowerCase) : CharAt(LowerCase, i) = c)
    ELSE c

RECURSIVE Upper(_)
\* str.upper()
Upper(s) == IF Len(s) = 0 THEN "" ELSE UpperChar(CharAt(s, 1)) \o Upper(SubSeq(s, 2, Len(s)))

\* sub in s
Contains(s, sub) == \E i \in 1..(Len(s) - Len(sub) + 1) : SubSeq(s, i, i + Len(sub) - 1) = sub

\* 'RIGOL' in res.upper() or '0x1AB1' in res
IsRigol(res) == Contains(Upper(res), "RIGOL") \/ Contains(res, "0x1AB1")

\* an optional resource string: <<>> is None, <<s>> is the string s
None == <<>>

Some(s) == <<s>>

RECURSIVE LastRigol(_)
\* a scan that keeps the last matching resource
LastRigol(resources) ==
    IF Len(resources) = 0 THEN None
    ELSE IF IsRigol(resources[Len(resources)]) THEN Some(resources[Len(resources)])
    ELSE LastRigol(SubSeq(resources, 1, Len(resources) - 1))

RECURSIVE FirstRigol(_)
\* for res in resources: if ...: resource_string = res; break
FirstRigol(resources) ==
    IF Len(resources) = 0 THEN None
    ELSE IF IsRigol(Head(resources)) THEN Some(Head(resources))
    ELSE FirstRigol(Tail(resources))

\* the resource string after lines 30-35
Selected(resource_string, resources) ==
    IF resource_string = None THEN FirstRigol(resources) ELSE resource_string

\* the outcome of __init__ once the resource string rs is settled: ConnectionError before
\* any open_resource, or open_resource(rs) and the *IDN? query, either of which may raise
OpenSelected(rs, listed, opens, answers) ==
    IF rs = None
    THEN [exc |-> "ConnectionError", listed |-> listed, opened |-> None, inst |-> FALSE]
    ELSE IF ~opens
    THEN [exc |-> "VisaIOError", listed |-> listed, opened |-> rs, inst |-> FALSE]
    ELSE [exc |-> IF answers THEN "" ELSE "VisaIOError", listed |-> listed, opened |-> rs,
          inst |-> TRUE]

\* RigolDHO954(resource_string, timeout) with the resources list_resources() would give
RigolInit(resource_string, resources, opens, answers) ==
    OpenSelected(Selected(resource_string, resources), resource_string = None, opens, answers)

\* longest list list_resources() returns
MaxResources == 3

\* identifiers list_resources() may hold: the vendor id in a USB address, the vendor
\* name in lower case, the vendor id in lower case, and two without any marker
ResourceIds ==
    {"USB0::0x1AB1::INSTR", "TCPIP::rigol.lan::INSTR", "USB0::0x1ab1::INSTR", "ASRL1::INSTR"}

ResourceLists == UNION {[1..n -> ResourceIds] : n \in 0..MaxResources}

\* the resource_string argument: None, or an address of the caller's choosing
ResourceArgs == {None, Some("TCPIP::10.0.0.7::INSTR")}

ConnectCalls ==
    {[kind |-> "connect", resource_string |-> rs, resources |-> r, opens |-> o, answers |-> a] :
        rs \in ResourceArgs, r \in ResourceLists, o \in BOOLEAN, a \in BOOLEAN}

CallRigolInit ==
    /\ ret = Pending
    /\ call.kind = "connect"
    /\ ret' = RigolInit(call.resource_string, call.resources, call.opens, call.answers)
    /\ UNCHANGED call

\* positions of the enumerated resources that carry the vendor marker
Marked == {i \in 1..Len(call.resources) : IsRigol(call.resources[i])}

\* C13: with no resource string, connecting selects the first enumerated resource that
\* contains the vendor marker and raises ConnectionError, opening no session, when there
\* is none; a given resource string is used as it is.
C13_ResourceSelection ==
    (Decoded /\ call.kind = "connect") =>
        /\ (call.resource_string = None /\ Marked # {}) =>
              \E i \in Marked :
                 /\ \A j \in Marked : i <= j
                 /\ ret.opened = Some(call.resources[i])
                 /\ ret.exc # "ConnectionError"
        /\ (call.resource_string = None /\ Marked = {}) =>
              ret.exc = "ConnectionError" /\ ret.opened = None /\ ~ret.inst
        /\ call.resource_string # None =>
              ret.opened = call.resource_string /\ ~ret.listed

\* auto-detection passed over an unmarked resource, took the first of two marked ones
\* and the session opened
C13_Witness ==
    /\ Decoded
    /\ call.kind = "connect"
    /\ call.resource_string = None
    /\ Cardinality(Marked) = 2
    /\ 1 \notin Marked
    /\ call.resources[2] # call.resources[3]
    /\ ret.exc = ""
    /\ ret.opened = Some(call.resources[2])

-----------------------------------------------------------------------------
(* float(x) as a sign, a run of digits and a power of ten, for the values whose
   size spans many decades (entry boxes of the GUI, replies to :MEAS) *)

\* the digits of the mantissa m whose point is at p, and how many follow the point
MantissaDigitsAt(m, p) == [m |-> DigitsVal(Before(m, p) \o After(m, p)), frac |-> Len(After(m, p))]

\* an unsigned literal with its exponent marker at e: m * 10^e
UnsignedDecAt(u, e) ==
    [m |-> MantissaDigitsAt(Before(u, e), Find(Before(u, e), ".")).m,
     e |-> ExponentVal(After(u, e)) - MantissaDigitsAt(Before(u, e), Find(Before(u, e), ".")).frac]

\* a signed literal
SignedDec(s) ==
    [neg |-> Sign(s) < 0,
     m |-> UnsignedDecAt(Unsigned(s), ExpPos(Unsigned(s))).m,
     e |-> UnsignedDecAt(Unsigned(s), ExpPos(Unsigned(s))).e]

\* float(x) for an accepted x: (-1)^neg * m * 10^e (exact for the literals the model
\* draws, which have fewer significant digits than a double keeps)
FloatDec(x) == SignedDec(Strip(x))

\* the decimal exponent of the leading digit of m * 10^e (m > 0)
Leading(d) == Len(NatStr(d.m)) - 1 + d.e

\* |d| >= 10^k
AbsGePow10(d, k) == d.m > 0 /\ Leading(d) >= k

\* |d| <= 10^k
AbsLePow10(d, k) ==
    \/ d.m = 0
    \/ Leading(d) < k
    \/ (Leading(d) = k /\ d.m = Pow10(Len(NatStr(d.m)) - 1))

-----------------------------------------------------------------------------
(* utils.py: the validators *)

\* a validator that lets every positive scale through
validate_scale_value_unbounded(scale) == ~scale.neg /\ scale.m > 0

\* return 1e-9 <= scale <= 1e3
validate_scale_value(scale) == ~scale.neg /\ AbsGePow10(scale, 0 - 9) /\ AbsLePow10(scale, 3)

\* return -1e3 <= offset <= 1e3
validate_offset_value(offset) == AbsLePow10(offset, 3)

\* return -100 <= level <= 100
validate_trigger_level(level) == AbsLePow10(level, 2)

-----------------------------------------------------------------------------
(* f"{value}" of a float: repr, the shortest text that reads back as the float *)

RECURSIVE Zeros(_)
Zeros(n) == IF n <= 0 THEN "" ELSE "0" \o Zeros(n - 1)

RECURSIVE StripZeros(_)
\* m * 10^e without trailing zeros in m (m > 0)
StripZeros(d) == IF d.m % 10 = 0 THEN StripZeros([d EXCEPT !.m = d.m \div 10, !.e = d.e + 1]) ELSE d

\* the digits ds with a point after the first k of them (0 < k)
PointAfter(ds, k) ==
    IF k >= Len(ds) THEN ds \o Zeros(k - Len(ds)) \o ".0"
    ELSE SubSeq(ds, 1, k) \o "." \o SubSeq(ds, k + 1, Len(ds))

\* the exponent part of scientific notation: sign and at least two digits
ExpText(x) ==
    (IF x < 0 THEN "e-" ELSE "e+")
        \o (IF x < 10 /\ x > 0 - 10 THEN "0" ELSE "")
        \o NatStr(IF x < 0 THEN 0 - x ELSE x)

\* the digits ds whose leading digit stands for 10^x: fixed notation for
\* -4 <= x < 16, scientific notation outside
ReprDigits(ds, x) ==
    IF x < 0 - 4 \/ x >= 16
    THEN CharAt(ds, 1) \o (IF Len(ds) > 1 THEN "." \o SubSeq(ds, 2, Len(ds)) ELSE "") \o ExpText(x)
    ELSE IF x >= 0 THEN PointAfter(ds, x + 1)
    ELSE "0." \o Zeros(0 - x - 1) \o ds

\* repr of m * 10^e with m > 0 and no trailing zero in m
ReprStripped(d) == ReprDigits(NatStr(d.m), Leading(d))

\* repr(value)
FloatRepr(d) ==
    (IF d.neg THEN "-" ELSE "") \o (IF d.m = 0 THEN "0.0" ELSE ReprStripped(StripZeros(d)))

\* return -10 <= threshold <= 10
validate_digital_threshold(threshold) == AbsLePow10(threshold, 1)

\* a validator without the upper limit
validate_digital_label_unlimited(label) == Len(label) > 0

\* return len(label) <= 4 and len(label) > 0
validate_digital_label(label) == Len(label) <= 4 /\ Len(label) > 0

\* return threshold_type in valid_types
is_valid_threshold_type(threshold_type) ==
    threshold_type \in {"TTL", "CMOS5", "CMOS3", "ECL", "LVTTL", "LVCMOS3", "LVCMOS2", "CUSTOM"}

-----------------------------------------------------------------------------
(* rigol_gui.py: the callbacks of the main thread, each as what it hands to
   inst.write and which dialog it shows. s: is self.scope set; io: does the link carry
   the writes (when it does not, the first write of every try block raises) *)

Outcome(written, dialog) == [written |-> written, dialog |-> dialog]

\* if not self.scope: messagebox.showwarning(...); return
Warned == Outcome(<<>>, "warning")

\* if not self.scope: return   (also: the file dialog was cancelled)
Quiet == Outcome(<<>>, "")

\* an exception before the first write, caught by the handler's except
Rejected == Outcome(<<>>, "error")

\* one try block: the writes in order, then the dialog of the try or of the except
Attempt(cmds, io, done, failed) ==
    IF io \/ Len(cmds) = 0 THEN Outcome(cmds, done) ELSE Outcome(SubSeq(cmds, 1, 1), failed)

OnOff(state) == IF state THEN "1" ELSE "0"

reset_scope(s, io) == IF ~s THEN Warned ELSE Attempt(<<"*RST">>, io, "info", "error")

autoscale(s, io) == IF ~s THEN Warned ELSE Attempt(<<":AUT">>, io, "info", "error")

run_scope(s, io) == IF ~s THEN Warned ELSE Attempt(<<":RUN">>, io, "", "error")

stop_scope(s, io) == IF ~s THEN Warned ELSE Attempt(<<":STOP">>, io, "", "error")

single_scope(s, io) == IF ~s THEN Warned ELSE Attempt(<<":SING">>, io, "", "error")

update_channel_display(s, io, channel, state) ==
    IF ~s THEN Quiet
    ELSE Attempt(<<":CHAN" \o IntStr(channel) \o ":DISP " \o OnOff(state)>>, io, "", "error")

\* an update that writes whatever float the box holds
update_channel_scale_unchecked(s, io, channel, scale_str) ==
    IF ~s THEN Quiet
    ELSE IF ~FloatOk(scale_str) THEN Rejected
    ELSE Attempt(<<":CHAN" \o IntStr(channel) \o ":SCAL " \o FloatRepr(FloatDec(scale_str))>>,
                 io, "", "error")

update_channel_scale(s, io, channel, scale_str) ==
    IF ~s THEN Quiet
    ELSE IF ~FloatOk(scale_str) THEN Rejected
    ELSE IF ~validate_scale_value(FloatDec(scale_str)) THEN Rejected
    ELSE Attempt(<<":CHAN" \o IntStr(channel) \o ":SCAL " \o FloatRepr(FloatDec(scale_str))>>,
                 io, "", "error")

update_channel_offset(s, io, channel, offset_str) ==
    IF ~s THEN Quiet
    ELSE IF ~FloatOk(offset_str) THEN Rejected
    ELSE IF ~validate_offset_value(FloatDec(offset_str)) THEN Rejected
    ELSE Attempt(<<":CHAN" \o IntStr(channel) \o ":OFFS " \o FloatRepr(FloatDec(offset_str))>>,
                 io, "", "error")

\* set_channel_coupling raises ValueError for a coupling that is not in valid_couplings
update_channel_coupling(s, io, channel, coupling) ==
    IF ~s THEN Quiet
    ELSE IF coupling \notin {"DC", "AC", "GND"} THEN Rejected
    ELSE Attempt(<<":CHAN" \o IntStr(channel) \o ":COUP " \o coupling>>, io, "", "error")

update_channel_probe(s, io, channel, probe_str) ==
    IF ~s THEN Quiet
    ELSE IF ~FloatOk(probe_str) THEN Rejected
    ELSE Attempt(<<":CHAN" \o IntStr(channel) \o ":PROB " \o FloatRepr(FloatDec(probe_str))>>,
                 io, "", "error")

update_timebase(s, io, scale_str, offset_str) ==
    IF ~s THEN Quiet
    ELSE IF ~FloatOk(scale_str) \/ ~FloatOk(offset_str) THEN Rejected
    ELSE Attempt(<<":TIM:SCAL " \o FloatRepr(FloatDec(scale_str)),
                   ":TIM:OFFS " \o FloatRepr(FloatDec(offset_str))>>, io, "", "error")

\* the four setters of update_trigger: set_trigger_mode raises before its write for a
\* mode outside valid_modes, set_trigger_slope for a slope outside valid_slopes
TriggerWrites(mode, source, level, slope) ==
    IF mode \notin {"AUTO", "NORM", "SING"} THEN <<>>
    ELSE <<":TRIG:MODE " \o mode, ":TRIG:EDGE:SOUR " \o source,
           ":TRIG:EDGE:LEV " \o FloatRepr(level)>>
         \o (IF slope \in {"POS", "NEG", "RFAL"} THEN <<":TRIG:EDGE:SLOP " \o slope>> ELSE <<>>)

TriggerDone(mode, slope) ==
    IF mode \in {"AUTO", "NORM", "SING"} /\ slope \in {"POS", "NEG", "RFAL"} THEN "" ELSE "error"

update_trigger(s, io, mode, source, level_str, slope) ==
    IF ~s THEN Quiet
    ELSE IF ~FloatOk(level_str) THEN Rejected
    ELSE IF ~validate_trigger_level(FloatDec(level_str)) THEN Rejected
    ELSE Attempt(TriggerWrites(mode, source, FloatDec(level_str), slope), io,
                 TriggerDone(mode, slope), "error")

force_trigger(s, io) == IF ~s THEN Quiet ELSE Attempt(<<":TFOR">>, io, "", "error")

toggle_logic_analyzer(s, io, state) ==
    IF ~s THEN Quiet ELSE Attempt(<<":LA:DISP " \o OnOff(state)>>, io, "", "error")

\* set_digital_threshold(threshold_type, level) without a channel: one write per
\* digital channel for CUSTOM, one write otherwise
ThresholdWrites(threshold_type, level) ==
    [i \in 1..16 |-> ":LA:DIG" \o IntStr(i - 1) \o ":THR " \o FloatRepr(level)]

update_la_threshold(s, io, threshold_type, level_str) ==
    IF ~s THEN Quiet
    ELSE IF ~is_valid_threshold_type(threshold_type) THEN Rejected
    ELSE IF threshold_type # "CUSTOM"
    THEN Attempt(<<":LA:THR " \o threshold_type>>, io, "", "error")
    ELSE IF ~FloatOk(level_str) THEN Rejected
    ELSE IF ~validate_digital_threshold(FloatDec(level_str)) THEN Rejected
    ELSE Attempt(ThresholdWrites(threshold_type, FloatDec(level_str)), io, "", "error")

update_digital_channel_display(s, io, channel, state) ==
    IF ~s THEN Quiet
    ELSE Attempt(<<":LA:DIG" \o IntStr(channel) \o ":DISP " \o OnOff(state)>>, io, "", "error")

\* the except of update_digital_label logs and shows no dialog
update_digital_label(s, io, channel, label) ==
    IF ~s THEN Quiet
    ELSE IF ~validate_digital_label(label) THEN Quiet
    ELSE Attempt(<<":LA:DIG" \o IntStr(channel) \o ":LAB \"" \o label \o "\"">>, io, "", "")

\* enable_all_digital / disable_all_digital: every digital checkbox is set and
\* update_digital_channel_display runs for it, each in its own try
SetAllDigital(s, io, state) ==
    IF ~s THEN Quiet
    ELSE Outcome([i \in 1..16 |-> update_digital_channel_display(s, io, i - 1, state).written[1]],
                 IF io THEN "" ELSE "error")

enable_all_digital(s, io) == SetAllDigital(s, io, TRUE)

disable_all_digital(s, io) == SetAllDigital(s, io, FALSE)

\* disable_all_digital(), then the channels start..end are set and displayed
enable_digital_group(s, io, start, end) ==
    IF ~s THEN Quiet
    ELSE Outcome(disable_all_digital(s, io).written
                    \o [i \in 1..(end - start + 1) |->
                           update_digital_channel_display(s, io, start + i - 1, TRUE).written[1]],
                 IF io THEN "" ELSE "error")

\* int(x) of the text of an entry box, for an accepted x
IntVal(x) == Sign(Strip(x)) * DigitsVal(Unsigned(Strip(x)))

\* the writes of get_waveform_data / get_digital_data for slot p
SlotCmds(p, points) ==
    Append(RetrievalCmds((IF SlotKind(p) = "analog" THEN "CHAN" ELSE "DIG")
                             \o IntStr(SlotChannel(p)), points),
           ":WAV:DATA?")

RECURSIVE WaveformWrites(_, _, _)
\* update_waveform from slot p on: each enabled channel in its own try
WaveformWrites(p, points, io) ==
    IF p > LastSlot THEN <<>>
    ELSE (IF SlotEnabled(p) THEN Attempt(SlotCmds(p, points), io, "", "").written ELSE <<>>)
            \o WaveformWrites(p + 1, points, io)

\* a refresh that does not look at self.scope
update_waveform_unguarded(s, io, points_str) ==
    IF ~PointsOk(points_str) THEN Quiet
    ELSE Outcome(WaveformWrites(1, IntVal(points_str), io), "")

update_waveform(s, io, points_str) ==
    IF ~s THEN Quiet
    ELSE IF ~PointsOk(points_str) THEN Quiet
    ELSE Outcome(WaveformWrites(1, IntVal(points_str), io), "")

\* the query measure(meas, ch) sends
MeasureQuery(meas, ch) == ":MEAS:" \o meas \o "? CHAN" \o IntStr(ch)

\* the queries of update_measurements for channel ch when the channels in enabled are
\* checked
MeasurementQueries(enabled, ch) ==
    IF ch \in enabled
    THEN [k \in 1..Len(Measurements) |-> MeasureQuery(Measurements[k], ch)]
    ELSE <<>>

\* every measurement has its own try: a write that raises shows "Error" in its cell
update_measurements(s, io) ==
    IF ~s THEN Warned
    ELSE Outcome(MeasurementQueries(channel_vars, 1) \o MeasurementQueries(channel_vars, 2)
                    \o MeasurementQueries(channel_vars, 3) \o MeasurementQueries(channel_vars, 4),
                 "")

\* chosen: did the file dialog return a name
take_screenshot(s, io, chosen) ==
    IF ~s THEN Warned
    ELSE IF ~chosen THEN Quiet
    ELSE Attempt(<<":DISP:DATA?">>, io, "info", "error")

RECURSIVE ExportWrites(_, _)
\* the retrievals of save_waveform from slot p on, all in one try
ExportWrites(p, points) ==
    IF p > LastSlot THEN <<>>
    ELSE (IF SlotEnabled(p) THEN SlotCmds(p, points) ELSE <<>>) \o ExportWrites(p + 1, points)

save_waveform(s, io, chosen, points_str) ==
    IF ~s THEN Warned
    ELSE IF ~chosen THEN Quiet
    ELSE IF ~PointsOk(points_str) THEN Rejected
    ELSE Attempt(ExportWrites(1, IntVal(points_str)), io, "info", "error")

-----------------------------------------------------------------------------
(* SpecCallbacks: the callbacks of the main thread one after the other, no polling
   thread. call is the callback that ran last with what its widgets held, ret what it
   did *)

Cb(kind, channel, text, state, io) ==
    [kind |-> kind, channel |-> channel, text |-> text, state |-> state, io |-> io]

\* no callback has run
NoCallback == Cb("", 0, "", FALSE, TRUE)

NoOutcome == [written |-> <<>>, dialog |-> "", held |-> FALSE, since |-> ""]

\* whether a connect attempt has failed with no session held and none has succeeded
\* since, once the callback in call is over: "" no, "failed" the callback was that
\* attempt, "failed+op" other callbacks ran after it
Since ==
    IF scope # 0 THEN ""
    ELSE IF call.kind = "connect_scope" THEN "failed"
    ELSE IF ret.since # "" THEN "failed+op"
    ELSE ""

\* callback c runs and does o; held and since describe the moment it was invoked
Invoke(c, o) ==
    /\ call' = c
    /\ ret' = [written |-> o.written, dialog |-> o.dialog, held |-> scope # 0, since |-> Since]

\* what the entry boxes hold when a callback runs: for the checked entries a text the
\* callback accepts and one it rejects
ScaleEntries == {"0.5", "2e3"}

OffsetEntries == {"0.0", "x"}

LevelEntries == {"0.0", "100.5"}

ProbeTexts == {"10"}

TimebaseTexts == {"0.001"}

ThresholdTypes == {"CUSTOM"}

ThresholdTexts == {"12"}

LabelTexts == {"CLK"}

\* the analog channel whose controls are used
ControlChannels == {2}

\* the digital channel whose checkbox and label box are used
DigitalInputs == {15}

\* does the link carry the writes, for the callbacks followed with a broken link too
LinkStates == BOOLEAN

\* the resources list_resources() finds when Connect is pressed
ConnectResources == {<<>>, <<"ASRL1::INSTR", "USB0::0x1AB1::INSTR">>}

\* connect_scope: RigolDHO954(resource_string=None) selects, opens and asks *IDN?;
\* self.scope is assigned when it returns, left alone when it raises (the object of a
\* constructor that raised is dropped, and the session it may have opened with it)
ConnectOutcome(r) ==
    /\ sessions' = IF r.exc = "" THEN sessions + 1 ELSE sessions
    /\ scope' = IF r.exc = "" THEN sessions + 1 ELSE scope
    /\ Invoke(Cb("connect_scope", 0, r.exc, r.inst, r.exc = ""),
              Outcome(IF r.inst THEN <<"*IDN?">> ELSE <<>>, IF r.exc = "" THEN "info" ELSE "error"))

CallConnectScope ==
    /\ sessions < MaxSessions
    /\ \E resources \in ConnectResources, opens \in BOOLEAN, answers \in BOOLEAN :
          ConnectOutcome(RigolInit(None, resources, opens, answers))
    /\ UNCHANGED <<closed, is_running, auto_update_var, update_thread, thr, fg, settingVars>>

\* disconnect_scope: with a scope, is_running = False, close(), self.scope = None
CallDisconnectScope ==
    /\ is_running' = IF scope # 0 THEN FALSE ELSE is_running
    /\ closed' = IF scope # 0 THEN closed \cup {scope} ELSE closed
    /\ scope' = 0
    /\ Invoke(Cb("disconnect_scope", 0, "", FALSE, TRUE), Quiet)
    /\ UNCHANGED <<sessions, auto_update_var, update_thread, thr, fg, settingVars>>

\* the buttons Reset, Autoscale, Run, Stop, Single, Force
CallButton ==
    /\ \E io \in {TRUE} :
          \/ Invoke(Cb("reset_scope", 0, "", FALSE, io), reset_scope(scope # 0, io))
          \/ Invoke(Cb("autoscale", 0, "", FALSE, io), autoscale(scope # 0, io))
          \/ Invoke(Cb("run_scope", 0, "", FALSE, io), run_scope(scope # 0, io))
          \/ Invoke(Cb("stop_scope", 0, "", FALSE, io), stop_scope(scope # 0, io))
          \/ Invoke(Cb("single_scope", 0, "", FALSE, io), single_scope(scope # 0, io))
          \/ Invoke(Cb("force_trigger", 0, "", FALSE, io), force_trigger(scope # 0, io))
    /\ UNCHANGED <<guiVars, settingVars>>

\* a channel checkbox is clicked: Tk sets the variable, then the callback runs
CallUpdateChannelDisplay ==
    /\ \E ch \in ControlChannels, io \in {TRUE} :
          \/ /\ ch \notin channel_vars
             /\ channel_vars' = channel_vars \cup {ch}
             /\ Invoke(Cb("update_channel_display", ch, "", TRUE, io),
                       update_channel_display(scope # 0, io, ch, TRUE))
          \/ /\ ch \in channel_vars
             /\ channel_vars' = channel_vars \ {ch}
             /\ Invoke(Cb("update_channel_display", ch, "", FALSE, io),
                       update_channel_display(scope # 0, io, ch, FALSE))
    /\ UNCHANGED <<guiVars, la_enabled_var, digital_channel_vars>>

CallUpdateChannelScale ==
    /\ \E ch \in ControlChannels, scale_str \in ScaleEntries, io \in {TRUE} :
          Invoke(Cb("update_channel_scale", ch, scale_str, FALSE, io),
                 update_channel_scale(scope # 0, io, ch, scale_str))
    /\ UNCHANGED <<guiVars, settingVars>>

CallUpdateChannelOffset ==
    /\ \E ch \in ControlChannels, offset_str \in OffsetEntries, io \in {TRUE} :
          Invoke(Cb("update_channel_offset", ch, offset_str, FALSE, io),
                 update_channel_offset(scope # 0, io, ch, offset_str))
    /\ UNCHANGED <<guiVars, settingVars>>

CallUpdateChannelCoupling ==
    /\ \E ch \in ControlChannels, coupling \in {"AC"}, io \in {TRUE} :
          Invoke(Cb("update_channel_coupling", ch, coupling, FALSE, io),
                 update_channel_coupling(scope # 0, io, ch, coupling))
    /\ UNCHANGED <<guiVars, settingVars>>

CallUpdateChannelProbe ==
    /\ \E ch \in ControlChannels, probe_str \in ProbeTexts, io \in {TRUE} :
          Invoke(Cb("update_channel_probe", ch, probe_str, FALSE, io),
                 update_channel_probe(scope # 0, io, ch, probe_str))
    /\ UNCHANGED <<guiVars, settingVars>>

\* the offset box keeps its default text
CallUpdateTimebase ==
    /\ \E scale_str \in TimebaseTexts, io \in {TRUE} :
          Invoke(Cb("update_timebase", 0, scale_str, FALSE, io),
                 update_timebase(scope # 0, io, scale_str, "0.0"))
    /\ UNCHANGED <<guiVars, settingVars>>

\* mode, source and slope keep their defaults
CallUpdateTrigger ==
    /\ \E level_str \in LevelEntries, io \in {TRUE} :
          Invoke(Cb("update_trigger", 0, level_str, FALSE, io),
                 update_trigger(scope # 0, io, "AUTO", "CHAN1", level_str, "POS"))
    /\ UNCHANGED <<guiVars, settingVars>>

CallToggleLogicAnalyzer ==
    /\ \E io \in {TRUE} :
          Invoke(Cb("toggle_logic_analyzer", 0, "", ~la_enabled_var, io),
                 toggle_logic_analyzer(scope # 0, io, ~la_enabled_var))
    /\ la_enabled_var' = ~la_enabled_var
    /\ UNCHANGED <<guiVars, channel_vars, digital_channel_vars>>

\* the level box is read for CUSTOM only
CallUpdateLaThreshold ==
    /\ \E threshold_type \in ThresholdTypes, level_str \in ThresholdTexts, io \in {TRUE} :
          Invoke(Cb("update_la_threshold", 0, threshold_type \o " " \o level_str, FALSE, io),
                 update_la_threshold(scope # 0, io, threshold_type, level_str))
    /\ UNCHANGED <<guiVars, settingVars>>

CallUpdateDigitalChannelDisplay ==
    /\ \E d \in DigitalInputs, io \in {TRUE} :
          \/ /\ d \notin digital_channel_vars
             /\ digital_channel_vars' = digital_channel_vars \cup {d}
             /\ Invoke(Cb("update_digital_channel_display", d, "", TRUE, io),
                       update_digital_channel_display(scope # 0, io, d, TRUE))
          \/ /\ d \in digital_channel_vars
             /\ digital_channel_vars' = digital_channel_vars \ {d}
             /\ Invoke(Cb("update_digital_channel_display", d, "", FALSE, io),
                       update_digital_channel_display(scope # 0, io, d, FALSE))
    /\ UNCHANGED <<guiVars, channel_vars, la_enabled_var>>

CallUpdateDigitalLabel ==
    /\ \E d \in DigitalInputs, label \in LabelTexts, io \in {TRUE} :
          Invoke(Cb("update_digital_label", d, label, FALSE, io),
                 update_digital_label(scope # 0, io, d, label))
    /\ UNCHANGED <<guiVars, settingVars>>

\* the buttons All On, All Off, D0-D7, D8-D15
CallDigitalBulk ==
    /\ \E io \in {TRUE} :
          \/ /\ digital_channel_vars' = DigitalChannels
             /\ Invoke(Cb("enable_all_digital", 0, "", TRUE, io),
                       enable_all_digital(scope # 0, io))
          \/ /\ digital_channel_vars' = {}
             /\ Invoke(Cb("disable_all_digital", 0, "", FALSE, io),
                       disable_all_digital(scope # 0, io))
          \/ \E start \in {0, 8} :
                /\ digital_channel_vars' = start..(start + 7)
                /\ Invoke(Cb("enable_digital_group", start, "", TRUE, io),
                          enable_digital_group(scope # 0, io, start, start + 7))
    /\ UNCHANGED <<guiVars, channel_vars, la_enabled_var>>

\* the Update button
CallUpdateWaveform ==
    /\ \E points_str \in PointsInputs, io \in {TRUE} :
          Invoke(Cb("update_waveform", 0, points_str, FALSE, io),
                 update_waveform(scope # 0, io, points_str))
    /\ UNCHANGED <<guiVars, settingVars>>

CallUpdateMeasurements ==
    /\ \E io \in LinkStates :
          Invoke(Cb("update_measurements", 0, "", FALSE, io), update_measurements(scope # 0, io))
    /\ UNCHANGED <<guiVars, settingVars>>

CallTakeScreenshot ==
    /\ \E chosen \in BOOLEAN, io \in {TRUE} :
          Invoke(Cb("take_screenshot", 0, "", chosen, io), take_screenshot(scope # 0, io, chosen))
    /\ UNCHANGED <<guiVars, settingVars>>

CallSaveWaveform ==
    /\ \E chosen \in BOOLEAN, points_str \in PointsInputs, io \in {TRUE} :
          Invoke(Cb("save_waveform", 0, points_str, chosen, io),
                 save_waveform(scope # 0, io, chosen, points_str))
    /\ UNCHANGED <<guiVars, settingVars>>

CallbacksInit ==
    /\ call = NoCallback
    /\ ret = NoOutcome
    /\ GuiIdle
    /\ ConfigInit

CallbacksNext ==
    \/ (CallConnectScope /\ UNCHANGED <<configVars, batch>>)
    \/ (CallDisconnectScope /\ UNCHANGED <<configVars, batch>>)
    \/ (CallButton /\ UNCHANGED <<configVars, batch>>)
    \/ (CallUpdateChannelDisplay /\ UNCHANGED <<configVars, batch>>)
    \/ (CallUpdateChannelScale /\ UNCHANGED <<configVars, batch>>)
    \/ (CallUpdateChannelOffset /\ UNCHANGED <<configVars, batch>>)
    \/ (CallUpdateChannelCoupling /\ UNCHANGED <<configVars, batch>>)
    \/ (CallUpdateChannelProbe /\ UNCHANGED <<configVars, batch>>)
    \/ (CallUpdateTimebase /\ UNCHANGED <<configVars, batch>>)
    \/ (CallUpdateTrigger /\ UNCHANGED <<configVars, batch>>)
    \/ (CallToggleLogicAnalyzer /\ UNCHANGED <<configVars, batch>>)
    \/ (CallUpdateLaThreshold /\ UNCHANGED <<configVars, batch>>)
    \/ (CallUpdateDigitalChannelDisplay /\ UNCHANGED <<configVars, batch>>)
    \/ (CallUpdateDigitalLabel /\ UNCHANGED <<configVars, batch>>)
    \/ (CallDigitalBulk /\ UNCHANGED <<configVars, batch>>)
    \/ (CallUpdateWaveform /\ UNCHANGED <<configVars, batch>>)
    \/ (CallUpdateMeasurements /\ UNCHANGED <<configVars, batch>>)
    \/ (CallTakeScreenshot /\ UNCHANGED <<configVars, batch>>)
    \/ (CallSaveWaveform /\ UNCHANGED <<configVars, batch>>)

SpecCallbacks == CallbacksInit /\ [][CallbacksNext]_vars

\* C14: after a connect attempt that fails while no session is held, self.scope is
\* None, and every other callback invoked from then on, until a connect attempt
\* succeeds, returns without handing any command to the instrument.
C14_FailedConnectLeavesUsable ==
    /\ (call.kind = "connect_scope" /\ ~ret.held /\ ret.dialog = "error") => scope = 0
    /\ (ret.since # "" /\ call.kind # "connect_scope") => (ret.written = <<>> /\ scope = 0)

\* a connect attempt failed, another callback ran, and a later attempt succeeded
C14_Witness ==
    /\ call.kind = "connect_scope"
    /\ ret.since = "failed+op"
    /\ ret.dialog = "info"
    /\ scope # 0

-----------------------------------------------------------------------------
(* One call of update_channel_scale, update_channel_offset or update_trigger, from
   every modelled text of its entry box *)

\* what the entry boxes may hold: values inside the range, on its ends, outside it,
\* and texts float() rejects
ScaleTexts == {"0.5", " 1 ", "1e3", "1e-9", "1000.5", "2e3", "9e-10", "0", "-1", "abc", ""}

OffsetTexts == {"0.0", "-1000", "1e3", "1000.5", "-2e3", "x", "1,5"}

LevelTexts == {"0.0", "100", "-100", "100.5", "-1e3", "high", "1.5V"}

EntryCall(kind, s, io, channel, text) ==
    [kind |-> kind, s |-> s, io |-> io, channel |-> channel, text |-> text]

EntryCalls ==
    {EntryCall("update_channel_scale", s, io, ch, t) :
        s \in BOOLEAN, io \in BOOLEAN, ch \in AnalogChannels, t \in ScaleTexts}
    \cup {EntryCall("update_channel_offset", s, io, ch, t) :
        s \in BOOLEAN, io \in BOOLEAN, ch \in AnalogChannels, t \in OffsetTexts}
    \cup {EntryCall("update_trigger", s, io, 0, t) :
        s \in BOOLEAN, io \in BOOLEAN, t \in LevelTexts}

ApplyUpdateChannelScale ==
    /\ ret = Pending
    /\ call.kind = "update_channel_scale"
    /\ ret' = update_channel_scale(call.s, call.io, call.channel, call.text)
    /\ UNCHANGED call

ApplyUpdateChannelOffset ==
    /\ ret = Pending
    /\ call.kind = "update_channel_offset"
    /\ ret' = update_channel_offset(call.s, call.io, call.channel, call.text)
    /\ UNCHANGED call

\* mode, source and slope hold their defaults
ApplyUpdateTrigger ==
    /\ ret = Pending
    /\ call.kind = "update_trigger"
    /\ ret' = update_trigger(call.s, call.io, "AUTO", "CHAN1", call.text, "POS")
    /\ UNCHANGED call

\* the text is not a float, or the validator of the entry rejects the float
InvalidEntry ==
    \/ ~FloatOk(call.text)
    \/ call.kind = "update_channel_scale" /\ ~validate_scale_value(FloatDec(call.text))
    \/ call.kind = "update_channel_offset" /\ ~validate_offset_value(FloatDec(call.text))
    \/ call.kind = "update_trigger" /\ ~validate_trigger_level(FloatDec(call.text))

\* the modelled texts that denote a number inside the range of their entry:
\* 1e-9 .. 1e3 for a scale, -1e3 .. 1e3 for an offset, -100 .. 100 for a trigger level
EntriesInRange ==
    [update_channel_scale |-> {"0.5", " 1 ", "1e3", "1e-9"},
     update_channel_offset |-> {"0.0", "-1000", "1e3"},
     update_trigger |-> {"0.0", "100", "-100"}]

EntryUpdated ==
    /\ call.kind \in {"update_channel_scale", "update_channel_offset", "update_trigger"}
    /\ ret # Pending

\* C15: an entry that is not a float or that its validator rejects makes the update
\* operation return after its error dialog with no command written to the instrument.
C15_InvalidEntryWritesNothing ==
    (EntryUpdated /\ call.s /\ (InvalidEntry \/ call.text \notin EntriesInRange[call.kind])) =>
        (ret.written = <<>> /\ ret.dialog = "error")

\* a scale above the range was entered while connected, and nothing was written
C15_Witness ==
    /\ EntryUpdated
    /\ call.kind = "update_channel_scale"
    /\ call.s
    /\ call.io
    /\ call.text = "2e3"
    /\ ret.written = <<>>

-----------------------------------------------------------------------------
(* utils.py: format_measurement_value, on floats as sign, digits and power of ten *)

\* value >= 10^k
GePow10(d, k) == ~d.neg /\ AbsGePow10(d, k)

\* value * 10^k
TimesPow10(d, k) == [d EXCEPT !.e = d.e + k]

\* n / 10^k rounded to the nearest integer, a tie to the even one
RoundDiv(n, k) ==
    IF 2 * (n % Pow10(k)) > Pow10(k) THEN (n \div Pow10(k)) + 1
    ELSE IF 2 * (n % Pow10(k)) < Pow10(k) THEN n \div Pow10(k)
    ELSE (n \div Pow10(k)) + ((n \div Pow10(k)) % 2)

\* the thousandths of |d|, rounded as the .3f format rounds (the values drawn are
\* far from a tie, or are a tie the double holds exactly)
Thousandths(d) ==
    IF d.m = 0 THEN 0
    ELSE IF d.e >= 0 - 3 THEN d.m * Pow10(d.e + 3) ELSE RoundDiv(d.m, 0 - 3 - d.e)

\* n as three digits
Pad3(n) == Zeros(3 - Len(NatStr(n))) \o NatStr(n)

\* f"{value:.3f}"
Fixed3(d) ==
    (IF d.neg THEN "-" ELSE "")
        \o NatStr(Thousandths(d) \div 1000) \o "." \o Pad3(Thousandths(d) % 1000)

\* a formatter that prints every measurement as a voltage
format_measurement_value_as_volts(value, measurement_type) ==
    IF AbsGePow10(value, 0) THEN Fixed3(value) \o " V"
    ELSE IF AbsGePow10(value, 0 - 3) THEN Fixed3(TimesPow10(value, 3)) \o " mV"
    ELSE Fixed3(TimesPow10(value, 6)) \o " uV"

\* "u" stands for the micro sign of the source
format_measurement_value(value, measurement_type) ==
    IF measurement_type = "FREQ"
    THEN IF GePow10(value, 6) THEN Fixed3(TimesPow10(value, 0 - 6)) \o " MHz"
         ELSE IF GePow10(value, 3) THEN Fixed3(TimesPow10(value, 0 - 3)) \o " kHz"
         ELSE Fixed3(value) \o " Hz"
    ELSE IF measurement_type \in {"PER", "PWID"}
    THEN IF GePow10(value, 0) THEN Fixed3(value) \o " s"
         ELSE IF GePow10(value, 0 - 3) THEN Fixed3(TimesPow10(value, 3)) \o " ms"
         ELSE IF GePow10(value, 0 - 6) THEN Fixed3(TimesPow10(value, 6)) \o " us"
         ELSE Fixed3(TimesPow10(value, 9)) \o " ns"
    ELSE IF AbsGePow10(value, 0) THEN Fixed3(value) \o " V"
         ELSE IF AbsGePow10(value, 0 - 3) THEN Fixed3(TimesPow10(value, 3)) \o " mV"
         ELSE Fixed3(TimesPow10(value, 6)) \o " uV"

-----------------------------------------------------------------------------
(* rigol_instrument.py: measure; rigol_gui.py: the cells of update_measurements *)

\* measure(): value = float(result) raises ValueError for a reply that is no float
MeasureExc(result) == IF FloatOk(result) THEN "" ELSE "ValueError"

\* the panel: a cell per channel and measurement, by its position in measurements
Cells == AnalogChannels \X (1..Len(Measurements))

\* StringVar(value="---")
EmptyPanel == [c \in Cells |-> "---"]

\* the try of one cell: the formatted value, or "Error" when measure raised
CellText(result, measurement_type) ==
    IF MeasureExc(result) # "" THEN "Error"
    ELSE format_measurement_value(FloatDec(result), measurement_type)

\* the cells in the order of the loops: channel 1 FREQ .. PWID, channel 2, ...
CellAt(i) == <<((i - 1) \div Len(Measurements)) + 1, ((i - 1) % Len(Measurements)) + 1>>

RECURSIVE MeasureFromStopsAtError(_, _, _)
\* loops that end at the first measurement that fails
MeasureFromStopsAtError(i, enabled, replies) ==
    IF i > Cardinality(Cells) THEN <<>>
    ELSE IF CellAt(i)[1] \notin enabled THEN MeasureFromStopsAtError(i + 1, enabled, replies)
    ELSE IF MeasureExc(replies[CellAt(i)]) # "" THEN <<CellAt(i)>>
    ELSE <<CellAt(i)>> \o MeasureFromStopsAtError(i + 1, enabled, replies)

RECURSIVE MeasureFrom(_, _, _)
\* the cells update_measurements asks the instrument for, from position i of the
\* loops on: the except of a cell lets the loops go on
MeasureFrom(i, enabled, replies) ==
    IF i > Cardinality(Cells) THEN <<>>
    ELSE IF CellAt(i)[1] \notin enabled THEN MeasureFrom(i + 1, enabled, replies)
    ELSE <<CellAt(i)>> \o MeasureFrom(i + 1, enabled, replies)

\* is cell c among the requested ones
Asked(c, asked) == \E i \in 1..Len(asked) : asked[i] = c

\* update_measurements with a scope: the queries written, the cells whose measure
\* raised, and the panel afterwards
MeasureAll(asked, replies) ==
    [written |-> [i \in 1..Len(asked) |-> MeasureQuery(Measurements[asked[i][2]], asked[i][1])],
     raised |-> {c \in Cells : Asked(c, asked) /\ MeasureExc(replies[c]) # ""},
     cells |-> [c \in Cells |->
                  IF Asked(c, asked) THEN CellText(replies[c], Measurements[c[2]])
                  ELSE EmptyPanel[c]]]

UpdateMeasurementsPanel(enabled, replies) == MeasureAll(MeasureFrom(1, enabled, replies), replies)

-----------------------------------------------------------------------------
(* One call of update_measurements with a scope, from every modelled set of replies *)

\* replies that are no float in one update
MaxBadReplies == 2

\* what the instrument answers to a measurement query
GoodReplies == {"1.5e+03", "2.5e-04"}

BadReplies == {"", "****", "1.5 V"}

\* the enable checkboxes of the analog channels
EnabledChoices == {{}, {1}, {2, 4}}

\* the cells whose reply may be bad: first, inner and last measurements, of enabled
\* and of disabled channels
FailingCells == {<<1, 1>>, <<1, 8>>, <<2, 1>>, <<2, 5>>, <<3, 3>>, <<4, 8>>}

RECURSIVE CellSets(_)
\* the sets of at most n of them
CellSets(n) ==
    IF n <= 0 THEN {{}}
    ELSE CellSets(n - 1) \cup {x \cup {c} : x \in CellSets(n - 1), c \in FailingCells}

MeasureCalls ==
    {[kind |-> "update_measurements", enabled |-> en, bad |-> bad, good |-> g, badText |-> b] :
        en \in EnabledChoices,
        bad \in CellSets(MaxBadReplies),
        g \in GoodReplies, b \in BadReplies}

\* the reply to the query of cell c
Replies == [c \in Cells |-> IF c \in call.bad THEN call.badText ELSE call.good]

ApplyUpdateMeasurements ==
    /\ ret = Pending
    /\ call.kind = "update_measurements"
    /\ ret' = UpdateMeasurementsPanel(call.enabled, Replies)
    /\ UNCHANGED call

Measured == call.kind = "update_measurements" /\ ret # Pending

\* C16: measure raises for exactly the replies that are no float; update_measurements
\* shows "Error" in the cells of those measurements and in no other, and requests
\* every measurement of every enabled channel, in order, whatever failed before.
C16_ErrorStaysInItsCell ==
    Measured =>
        /\ ret.raised = {c \in Cells : c[1] \in call.enabled /\ c \in call.bad}
        /\ \A c \in Cells : ret.cells[c] = "Error" <=> c \in ret.raised
        /\ \A c \in Cells : c[1] \notin call.enabled => ret.cells[c] = "---"
        /\ Len(ret.written) = Cardinality(call.enabled) * Len(Measurements)
        /\ \A c \in Cells :
              c[1] \in call.enabled =>
                 \E i \in 1..Len(ret.written) :
                    ret.written[i] = MeasureQuery(Measurements[c[2]], c[1])

\* the first measurement of channel 2 and the last of channel 4 failed; the
\* measurements after the first failure were requested and shown
C16_Witness ==
    /\ Measured
    /\ call.enabled = {2, 4}
    /\ call.bad = {<<2, 1>>, <<4, 8>>}
    /\ call.good = "1.5e+03"
    /\ ret.cells[<<2, 1>>] = "Error"
    /\ ret.cells[<<2, 2>>] = "1500.000 V"
    /\ ret.cells[<<4, 1>>] = "1.500 kHz"
    /\ ret.cells[<<4, 8>>] = "Error"
    /\ Len(ret.written) = 16

-----------------------------------------------------------------------------
(* config.py: Config(config_file) and load, on the dict objects of the process *)

\* a JSON object of the file: its keys to leaves or to other objects
Obj(f) == [kind |-> "obj", val |-> f]

RECURSIVE AllocObj(_, _)
RECURSIVE AllocKeys(_, _, _, _)
RECURSIVE MergeKeys(_, _, _, _)

\* the dict json.load built for the object f, as the new object Len(h) + 1
AllocObj(h, f) == AllocKeys(Append(h, EmptyDict), Len(h) + 1, f, DOMAIN f)

\* its items, the nested objects as dicts of their own
AllocKeys(h, obj, f, keys) ==
    IF keys = {} THEN h
    ELSE LET k == CHOOSE x \in keys : TRUE
         IN  IF f[k].kind = "leaf" THEN AllocKeys(Store(h, obj, k, f[k]), obj, f, keys \ {k})
             ELSE AllocKeys(Store(AllocObj(h, f[k].val), obj, k, Ref(Len(h) + 1)),
                            obj, f, keys \ {k})

\* _merge_config(base, update) for the items of update not merged yet:
\*   if key in base and isinstance(base[key], dict) and isinstance(value, dict): recurse
\*   else: base[key] = value
MergeKeys(h, base, update, keys) ==
    IF keys = {} THEN h
    ELSE LET k == CHOOSE x \in keys : TRUE
         IN  IF k \in DOMAIN h[base] /\ h[base][k].kind = "dict" /\ update[k].kind = "obj"
             THEN MergeKeys(MergeKeys(h, h[base][k].val, update[k].val, DOMAIN update[k].val),
                            base, update, keys \ {k})
             ELSE IF update[k].kind = "leaf"
             THEN MergeKeys(Store(h, base, k, update[k]), base, update, keys \ {k})
             ELSE MergeKeys(Store(AllocObj(h, update[k].val), base, k, Ref(Len(h) + 1)),
                            base, update, keys \ {k})

\* the config files of the model: none, {}, an override inside a section, new keys and a
\* new section, a string in the place of a section, an override three levels down, a
\* section in the place of a string
Files ==
    [none |-> Obj(<<>>),
     empty |-> Obj(<<>>),
     theme |-> Obj([gui |-> Obj([theme |-> Leaf("light")])]),
     extra |-> Obj([gui |-> Obj([theme |-> Leaf("light"), zoom |-> Leaf("2")]),
                    extra |-> Obj([a |-> Leaf("1")])]),
     flat |-> Obj([gui |-> Leaf("compact")]),
     label |-> Obj([logic_analyzer |-> Obj([default_labels |-> Obj([D0 |-> Leaf("CLK")])])]),
     deep |-> Obj([gui |-> Obj([theme |-> Obj([name |-> Leaf("light")])])])]

\* load(): nothing when the file does not exist, else the merge into self.config
Load(h, root, file) ==
    IF file = "none" THEN h ELSE MergeKeys(h, root, Files[file].val, DOMAIN Files[file].val)

\* Config(config_file): self.config = self.DEFAULT_CONFIG.copy(); self.load()
NewConfig(h, file) == Load(ShallowCopy(h, DEFAULT_CONFIG), Len(h) + 1, file)

-----------------------------------------------------------------------------
(* SpecLoad: the Config instances one process constructs, each from a file, and get
   on the newest *)

\* Config instances one process constructs
MaxLoads == 2

\* the class is defined, no instance yet
LoadInit ==
    /\ heap = DefaultHeap
    /\ config = 0
    /\ lastOp = NoOp
    /\ nOps = 0
    /\ everSet = {}
    /\ DecodeIdle
    /\ GuiIdle

CallConfig ==
    /\ nOps < MaxLoads
    /\ \E file \in DOMAIN Files :
          /\ heap' = NewConfig(heap, file)
          /\ lastOp' = [NoOp EXCEPT !.op = "load", !.key = file]
    /\ config' = Len(heap) + 1
    /\ nOps' = nOps + 1
    /\ UNCHANGED everSet

CallGetLoaded == config # 0 /\ CallGet

LoadNext ==
    \/ (CallConfig /\ UNCHANGED <<decodeVars, guiVars, settingVars, batch>>)
    \/ (CallGetLoaded /\ UNCHANGED <<decodeVars, guiVars, settingVars, batch>>)

SpecLoad == LoadInit /\ [][LoadNext]_vars

RECURSIVE NodesOf(_, _)
\* the key paths of the object f, below prefix
NodesOf(f, prefix) ==
    UNION {{Append(prefix, k)}
              \cup (IF f[k].kind = "obj" THEN NodesOf(f[k].val, Append(prefix, k)) ELSE {}) :
           k \in DOMAIN f}

RECURSIVE LeavesOf(_, _)
\* its key paths to non-object values, each with its value
LeavesOf(f, prefix) ==
    UNION {IF f[k].kind = "obj" THEN LeavesOf(f[k].val, Append(prefix, k))
           ELSE {<<Append(prefix, k), f[k]>>} :
           k \in DOMAIN f}

RECURSIVE BuiltinLeaves(_, _)
\* the key paths of the built-in defaults to non-dictionary values, each with its value
BuiltinLeaves(obj, prefix) ==
    UNION {IF DefaultHeap[obj][k].kind = "dict"
           THEN BuiltinLeaves(DefaultHeap[obj][k].val, Append(prefix, k))
           ELSE {<<Append(prefix, k), DefaultHeap[obj][k]>>} :
           k \in DOMAIN DefaultHeap[obj]}

\* the file the newest instance was constructed from
LoadedFile == Files[lastOp.key].val

Loaded == lastOp.op = "load" /\ lastOp.key # "none"

\* C17: after a load, every key path of the file holds the file's value, and every
\* built-in key path that is not in the file holds its built-in default.
C17_LoadDeepMerges ==
    Loaded =>
        /\ \A l \in LeavesOf(LoadedFile, <<>>) : GetAt(heap, Ref(config), l[1], Default) = l[2]
        /\ \A l \in BuiltinLeaves(DEFAULT_CONFIG, <<>>) :
              l[1] \notin NodesOf(LoadedFile, <<>>) =>
                 GetAt(heap, Ref(config), l[1], Default) = l[2]

-----------------------------------------------------------------------------
(* rigol_gui.py: save_waveform, the text it writes *)

\* what a retrieval returned: floats of get_waveform_data, ints of get_digital_data
Series(kind, vals) == [kind |-> kind, vals |-> vals]

\* f"{x}" of an element: a float by its repr, an int by its digits
ElementText(kind, v) ==
    IF kind = "digital" THEN IntStr(v)
    ELSE FloatRepr([neg |-> v < 0, m |-> IF v < 0 THEN 0 - v ELSE v, e |-> 0 - FracDigits])

\* f"{int(x)}" of an element
IntText(kind, v) == IF kind = "digital" THEN IntStr(v) ELSE IntStr(IntOfFloat(v))

\* data[key] = series
Assign(data, key, series) ==
    [k \in (DOMAIN data) \cup {key} |-> IF k = key THEN series ELSE data[k]]

\* the key of slot p in data: "CHn", or the text of the label box of the digital channel
SlotKey(p, labels) ==
    IF SlotKind(p) = "analog" THEN "CH" \o IntStr(SlotChannel(p)) ELSE labels[SlotChannel(p)]

\* is slot p exported: its checkbox, and the Logic Analyzer checkbox for a digital one
Exported(p, analog, la, digital) ==
    IF SlotKind(p) = "analog" THEN SlotChannel(p) \in analog
    ELSE la /\ SlotChannel(p) \in digital

RECURSIVE HeaderFrom(_, _, _, _, _)
\* header += f",CH{ch}" / f",{label}" from slot p on
HeaderFrom(p, analog, la, digital, labels) ==
    IF p > LastSlot THEN ""
    ELSE (IF Exported(p, analog, la, digital) THEN "," \o SlotKey(p, labels) ELSE "")
            \o HeaderFrom(p + 1, analog, la, digital, labels)

RECURSIVE DataFrom(_, _, _, _, _, _, _)
\* the two retrieval loops from slot p on: data[key] = the series of the slot
DataFrom(p, data, analog, la, digital, labels, series) ==
    IF p > LastSlot THEN data
    ELSE DataFrom(p + 1,
                  IF Exported(p, analog, la, digital)
                  THEN Assign(data, SlotKey(p, labels), series[p]) ELSE data,
                  analog, la, digital, labels, series)

\* the slot whose retrieval leaves time_data: the last enabled analog channel, or the
\* first enabled digital channel when no analog channel is enabled
TimeSlot(analog, la, digital) ==
    IF analog # {}
    THEN CHOOSE p \in 1..LastSlot :
            /\ SlotKind(p) = "analog" /\ SlotChannel(p) \in analog
            /\ \A c \in analog : c <= SlotChannel(p)
    ELSE CHOOSE p \in 1..LastSlot :
            /\ Exported(p, analog, la, digital)
            /\ \A q \in 1..(p - 1) : ~Exported(q, analog, la, digital)

\* does row i read past the end of a series
RowRaises(i, data, analog, la, digital, labels) ==
    \/ \E ch \in AnalogChannels :
          ("CH" \o IntStr(ch)) \in DOMAIN data /\ i > Len(data["CH" \o IntStr(ch)].vals)
    \/ \E p \in 1..LastSlot :
          /\ SlotKind(p) = "digital"
          /\ Exported(p, analog, la, digital)
          /\ i > Len(data[SlotKey(p, labels)].vals)

RECURSIVE RowFrom(_, _, _, _, _, _, _)
\* the fields of row i after the time, from slot p on: for an analog slot
\* "if f'CH{ch}' in data", for a digital one its checkbox and "if label in data"
RowFrom(p, i, data, analog, la, digital, labels) ==
    IF p > LastSlot THEN ""
    ELSE (IF SlotKind(p) = "analog"
          THEN IF SlotKey(p, labels) \in DOMAIN data
               THEN "," \o ElementText(data[SlotKey(p, labels)].kind, data[SlotKey(p, labels)].vals[i])
               ELSE ""
          ELSE IF Exported(p, analog, la, digital)
               THEN "," \o IntText(data[SlotKey(p, labels)].kind, data[SlotKey(p, labels)].vals[i])
               ELSE "")
         \o RowFrom(p + 1, i, data, analog, la, digital, labels)

\* f"{time_data[i]}": x_increment 1 and x_origin 0 in the model
TimeText(i) == ElementText("analog", FromInt(i - 1))

RECURSIVE RowsFrom(_, _, _, _, _, _, _)
\* the rows written from row i on, up to the one that raises IndexError
RowsFrom(i, n, data, analog, la, digital, labels) ==
    IF i > n \/ RowRaises(i, data, analog, la, digital, labels) THEN <<>>
    ELSE <<TimeText(i) \o RowFrom(1, i, data, analog, la, digital, labels)>>
            \o RowsFrom(i + 1, n, data, analog, la, digital, labels)

\* the file and the dialog once data and the row count n are known
ExportRows(header, n, rows) ==
    [exc |-> IF Len(rows) < n THEN "IndexError" ELSE "", header |-> header, lines |-> rows,
     dialog |-> IF Len(rows) < n THEN "error" ELSE "info"]

\* save_waveform with a scope, a file name and parsed points, every retrieval returning
SaveWaveformFile(analog, la, digital, labels, series) ==
    IF \A p \in 1..LastSlot : ~Exported(p, analog, la, digital)
    THEN ExportRows("Time", 0, <<>>)
    ELSE ExportRows("Time" \o HeaderFrom(1, analog, la, digital, labels),
                    Len(series[TimeSlot(analog, la, digital)].vals),
                    RowsFrom(1, Len(series[TimeSlot(analog, la, digital)].vals),
                             DataFrom(1, <<>>, analog, la, digital, labels, series),
                             analog, la, digital, labels))

-----------------------------------------------------------------------------
(* One call of save_waveform, from every modelled choice of channels, labels and
   sample counts *)

\* longest series a retrieval of the export returns
MaxExportSamples == 2

\* the checkboxes: analog channels, Logic Analyzer, digital channels
ExportAnalog == {{}, {1}, {1, 2}}

ExportDigital == {{}, {0}, {0, 1}}

\* the label boxes of D0 and D1: the defaults, the same label twice, the name of an
\* analog column; the other boxes keep their defaults
ExportLabels == {<<"D0", "D1">>, <<"CLK", "CLK">>, <<"CH2", "D1">>}

LabelsOf(pair) ==
    [d \in DigitalChannels |-> IF d = 0 THEN pair[1] ELSE IF d = 1 THEN pair[2] ELSE "D" \o IntStr(d)]

\* the samples each retrieval returns: analog i / 2 volts, digital i mod 2
SeriesOf(counts) ==
    [p \in 1..LastSlot |->
        IF SlotKind(p) = "analog"
        THEN Series("analog", [i \in 1..counts[SlotKey(p, LabelsOf(<<"D0", "D1">>))] |-> i * (Scale \div 2)])
        ELSE Series("digital", [i \in 1..counts[SlotKey(p, LabelsOf(<<"D0", "D1">>))] |-> i % 2])]

\* how many samples CH1, CH2, D0 and D1 return; every other channel one
CountChoices ==
    {[k \in {"CH" \o IntStr(ch) : ch \in AnalogChannels} \cup {"D" \o IntStr(d) : d \in DigitalChannels}
         |-> IF k = "CH1" THEN c[1] ELSE IF k = "CH2" THEN c[2] ELSE IF k = "D0" THEN c[3]
             ELSE IF k = "D1" THEN c[4] ELSE 1] :
     c \in (1..MaxExportSamples) \X (1..MaxExportSamples) \X (1..MaxExportSamples)
               \X (1..MaxExportSamples)}

ExportCalls ==
    {[kind |-> "save_waveform", analog |-> a, la |-> la, digital |-> d, labels |-> LabelsOf(l),
      counts |-> c] :
        a \in ExportAnalog, la \in BOOLEAN, d \in ExportDigital, l \in ExportLabels,
        c \in CountChoices}

ApplySaveWaveform ==
    /\ ret = Pending
    /\ call.kind = "save_waveform"
    /\ ret' = SaveWaveformFile(call.analog, call.la, call.digital, call.labels,
                               SeriesOf(call.counts))
    /\ UNCHANGED call

\* the slots the export reads
ExportedSlots == {p \in 1..LastSlot : Exported(p, call.analog, call.la, call.digital)}

\* the header the claim describes, as fields
ExpectedHeader ==
    <<"Time">>
      \o [i \in 1..Cardinality(call.analog) |->
             "CH" \o IntStr(CHOOSE ch \in call.analog :
                               Cardinality({b \in call.analog : b < ch}) = i - 1)]
      \o (IF call.la
          THEN [i \in 1..Cardinality(call.digital) |->
                  call.labels[CHOOSE d \in call.digital :
                                 Cardinality({b \in call.digital : b < d}) = i - 1]]
          ELSE <<>>)

Exported_ == call.kind = "save_waveform" /\ ret # Pending /\ ret.exc = ""

\* C19: a successful export writes the header Time, CHn per enabled analog channel,
\* label per enabled digital channel, then one row per sample of every exported
\* channel, each row with as many fields as the header.
C19_ExportRowsMatchHeader ==
    Exported_ =>
        /\ Split(ret.header, ",") = ExpectedHeader
        /\ \A p \in ExportedSlots : Len(ret.lines) = Len(SeriesOf(call.counts)[p].vals)
        /\ \A i \in 1..Len(ret.lines) :
              Len(Split(ret.lines[i], ",")) = Len(Split(ret.header, ","))

-----------------------------------------------------------------------------
(* One call of validate_scale_value, from a grid of floats around both ends of
   its range *)

\* largest decimal exponent of the scales drawn
MaxScaleExponent == 4

\* smallest one: three decades under the lower end of the range
MinScaleExponent == 0 - 12

\* mantissas on both sides of every power of ten up to 10^3
ScaleMantissas == {0, 1, 2, 9, 10, 11, 99, 100, 101, 999, 1000, 1001}

ScaleValues ==
    {[neg |-> n, m |-> m, e |-> e] :
        n \in BOOLEAN, m \in ScaleMantissas, e \in MinScaleExponent..MaxScaleExponent}

ScaleCalls == {[kind |-> "validate_scale_value", scale |-> v] : v \in ScaleValues}

ApplyValidateScaleValue ==
    /\ ret = Pending
    /\ call.kind = "validate_scale_value"
    /\ ret' = [exc |-> "", value |-> validate_scale_value(call.scale)]
    /\ UNCHANGED call

\* m * 10^e >= 10^-9, by integer arithmetic (m < 10^4)
AtLeastNano(m, e) == IF e >= 0 - 9 THEN m >= 1 ELSE m >= Pow10(0 - 9 - e)

\* m * 10^e <= 10^3, by integer arithmetic (m < 10^4)
AtMostKilo(m, e) ==
    IF e > 3 THEN m = 0 ELSE IF 3 - e > 4 THEN TRUE ELSE m <= Pow10(3 - e)

\* 1e-9 <= s <= 1e3 for the float s the call was given
ScaleInRange ==
    /\ ~call.scale.neg \/ call.scale.m = 0
    /\ AtLeastNano(call.scale.m, call.scale.e)
    /\ AtMostKilo(call.scale.m, call.scale.e)

ScaleValidated == call.kind = "validate_scale_value" /\ ret # Pending

\* C20: validate_scale_value(s) is true exactly for 1e-9 <= s <= 1e3, both ends
\* included.
C20_ScaleRangeInclusive == ScaleValidated => (ret.value <=> ScaleInRange)

\* the upper end itself was asked and accepted
C20_Witness ==
    /\ ScaleValidated
    /\ ~call.scale.neg /\ call.scale.m = 1000 /\ call.scale.e = 0
    /\ ret.value

-----------------------------------------------------------------------------
(* rigol_instrument.py: the digital-channel operations of RigolDHO954, each as the
   exception it raises and what it hands to inst.write / inst.query; utils.py:
   validate_digital_channel *)

\* return 0 <= channel <= 15
validate_digital_channel(channel) == 0 <= channel /\ channel <= 15

\* what an operation that returns no arrays did
Did(exc, cmds) == [exc |-> exc, written |-> cmds]

\* a setter that writes for whatever channel it is given
set_digital_channel_display_unchecked(channel, state) ==
    Did("", <<":LA:DIG" \o IntStr(channel) \o ":DISP " \o OnOff(state)>>)

set_digital_channel_display(channel, state) ==
    IF ~(0 <= channel /\ channel <= 15) THEN Did("ValueError", <<>>)
    ELSE Did("", <<":LA:DIG" \o IntStr(channel) \o ":DISP " \o OnOff(state)>>)

\* level and channel are None or Some(value)
set_digital_threshold(threshold_type, level, channel) ==
    IF ~is_valid_threshold_type(threshold_type) THEN Did("ValueError", <<>>)
    ELSE IF channel # None
    THEN IF ~(0 <= channel[1] /\ channel[1] <= 15) THEN Did("ValueError", <<>>)
         ELSE IF threshold_type = "CUSTOM" /\ level # None
         THEN Did("", <<":LA:DIG" \o IntStr(channel[1]) \o ":THR " \o FloatRepr(level[1])>>)
         ELSE Did("", <<":LA:DIG" \o IntStr(channel[1]) \o ":THR " \o threshold_type>>)
    ELSE IF threshold_type = "CUSTOM" /\ level # None
         THEN Did("", [i \in 1..16 |-> ":LA:DIG" \o IntStr(i - 1) \o ":THR " \o FloatRepr(level[1])])
         ELSE Did("", <<":LA:THR " \o threshold_type>>)

\* label[:4]
First4(label) == SubSeq(label, 1, IF Len(label) < 4 THEN Len(label) ELSE 4)

set_digital_label(channel, label) ==
    IF ~(0 <= channel /\ channel <= 15) THEN Did("ValueError", <<>>)
    ELSE Did("", <<":LA:DIG" \o IntStr(channel) \o ":LAB \"" \o First4(label) \o "\"">>)

get_digital_label(channel) ==
    IF ~(0 <= channel /\ channel <= 15) THEN Did("ValueError", <<>>)
    ELSE Did("", <<":LA:DIG" \o IntStr(channel) \o ":LAB?">>)

-----------------------------------------------------------------------------
(* One call of a digital-channel operation, from channel numbers on both sides of
   both ends of the range *)

\* largest channel number handed to an operation
MaxChannelArg == 17

ChannelArgs == (0 - 2)..MaxChannelArg

DigitalOps ==
    {"validate_digital_channel", "set_digital_channel_display", "set_digital_threshold",
     "get_digital_data", "set_digital_label", "get_digital_label"}

\* threshold_type and level of set_digital_threshold
ThresholdArgs ==
    {<<"TTL", None>>, <<"CUSTOM", Some([neg |-> FALSE, m |-> 15, e |-> 0 - 1])>>,
     <<"CUSTOM", None>>, <<"5V", None>>}

DigitalOpCalls ==
    {[kind |-> "digital_op", op |-> op, channel |-> d, state |-> st, threshold |-> th,
      label |-> "CLK"] :
        op \in DigitalOps, d \in ChannelArgs, st \in BOOLEAN, th \in ThresholdArgs}

\* the replies of a healthy instrument to get_digital_data: two samples
DigitalReplies ==
    [preamble |-> PreambleReply(Lit("1", 1, 0), Lit("0", 0, 0), Lit("1", 1, 0), Lit("0", 0, 0),
                                Lit("0", 0, 0), 1000),
     raw |-> BlockReply(<<Lit("0", 0, 0), Lit("1.0", 1, 0)>>, "tmc")]

DigitalOpOutcome(c) ==
    CASE c.op = "validate_digital_channel" ->
            [exc |-> "", written |-> <<>>, value |-> validate_digital_channel(c.channel)]
      [] c.op = "set_digital_channel_display" -> set_digital_channel_display(c.channel, c.state)
      [] c.op = "set_digital_threshold" ->
            set_digital_threshold(c.threshold[1], c.threshold[2], Some(c.channel))
      [] c.op = "get_digital_data" ->
            GetDigitalData(c.channel, 1000, DigitalReplies.preamble, DigitalReplies.raw)
      [] c.op = "set_digital_label" -> set_digital_label(c.channel, c.label)
      [] c.op = "get_digital_label" -> get_digital_label(c.channel)

ApplyDigitalOp ==
    /\ ret = Pending
    /\ call.kind = "digital_op"
    /\ ret' = DigitalOpOutcome(call)
    /\ UNCHANGED call

DigitalOpDone == call.kind = "digital_op" /\ ret # Pending

\* C21: validate_digital_channel(d) is true exactly for 0 <= d <= 15, and every
\* digital-channel operation given a channel outside 0..15 raises ValueError with
\* nothing written.
C21_DigitalRangeEnforced ==
    DigitalOpDone =>
        /\ call.op = "validate_digital_channel" => (ret.value <=> call.channel \in DigitalChannels)
        /\ (call.op # "validate_digital_channel" /\ call.channel \notin DigitalChannels) =>
              (ret.exc = "ValueError" /\ ret.written = <<>>)

\* a display write asked for channel 16 was refused with nothing sent
C21_Witness ==
    /\ DigitalOpDone
    /\ call.op = "set_digital_channel_display" /\ call.channel = 16
    /\ ret.exc = "ValueError" /\ ret.written = <<>>

-----------------------------------------------------------------------------
(* One call of update_digital_label, from label boxes holding texts of every length
   up to MaxLabelLen *)

\* longest text a label box holds
MaxLabelLen == 6

RECURSIVE Letters(_)
\* a text of n characters
Letters(n) == IF n <= 0 THEN "" ELSE Letters(n - 1) \o CharAt("ABCDEFGHIJ", n)

\* what the label box may hold: a text of each length, and blank ones
LabelBoxes == {Letters(n) : n \in 0..MaxLabelLen} \cup {" ", "D 0", "     "}

LabelCalls ==
    {[kind |-> "update_digital_label", s |-> s, io |-> io, channel |-> d, label |-> l] :
        s \in BOOLEAN, io \in BOOLEAN, d \in {0, 15}, l \in LabelBoxes}

ApplyUpdateDigitalLabel ==
    /\ ret = Pending
    /\ call.kind = "update_digital_label"
    /\ ret' = [written |-> update_digital_label(call.s, call.io, call.channel, call.label).written,
               value |-> validate_digital_label(call.label)]
    /\ UNCHANGED call

LabelUpdated == call.kind = "update_digital_label" /\ ret # Pending

\* C22: validate_digital_label accepts exactly the strings of 1 to 4 characters, and
\* update_digital_label hands a label command to the instrument only for an accepted
\* label.
C22_LabelLength ==
    LabelUpdated =>
        /\ ret.value <=> Len(call.label) \in 1..4
        /\ ret.written # <<>> =>
              /\ Len(call.label) \in 1..4
              /\ ret.written = <<":LA:DIG" \o IntStr(call.channel) \o ":LAB \"" \o call.label \o "\"">>

\* connected, a five-character label: refused, nothing sent
C22_Witness ==
    /\ LabelUpdated
    /\ call.s /\ call.io /\ Len(call.label) = 5
    /\ ~ret.value /\ ret.written = <<>>

-----------------------------------------------------------------------------
(* utils.py: get_threshold_voltage *)

\* the float m * 10^e
Dec(m, e) == [neg |-> FALSE, m |-> m, e |-> e]

Neg(d) == [d EXCEPT !.neg = TRUE]

\* the dict thresholds
Thresholds ==
    [TTL |-> Dec(14, 0 - 1), CMOS5 |-> Dec(25, 0 - 1), CMOS3 |-> Dec(165, 0 - 2),
     ECL |-> Neg(Dec(13, 0 - 1)), LVTTL |-> Dec(14, 0 - 1), LVCMOS3 |-> Dec(165, 0 - 2),
     LVCMOS2 |-> Dec(125, 0 - 2)]

\* a lookup that ignores letter case
get_threshold_voltage_any_case(threshold_type) ==
    IF Upper(threshold_type) \in DOMAIN Thresholds THEN Thresholds[Upper(threshold_type)]
    ELSE Dec(15, 0 - 1)

\* return thresholds.get(threshold_type, 1.5)
get_threshold_voltage(threshold_type) ==
    IF threshold_type \in DOMAIN Thresholds THEN Thresholds[threshold_type] ELSE Dec(15, 0 - 1)

-----------------------------------------------------------------------------
(* One call of get_threshold_voltage *)

\* the standard types, CUSTOM, and strings that are no type
ThresholdNames ==
    {"TTL", "CMOS5", "CMOS3", "ECL", "LVTTL", "LVCMOS3", "LVCMOS2", "CUSTOM", "INVALID", "",
     "ttl", " TTL", "TTL ", "CMOS", "1.4"}

ThresholdCalls == {[kind |-> "get_threshold_voltage", threshold_type |-> t] : t \in ThresholdNames}

ApplyGetThresholdVoltage ==
    /\ ret = Pending
    /\ call.kind = "get_threshold_voltage"
    /\ ret' = [exc |-> "", text |-> FloatRepr(get_threshold_voltage(call.threshold_type))]
    /\ UNCHANGED call

ThresholdAsked == call.kind = "get_threshold_voltage" /\ ret # Pending

\* the table of the claim, as the floats print
DocumentedVoltage(t) ==
    CASE t = "TTL" -> "1.4" [] t = "CMOS5" -> "2.5" [] t = "CMOS3" -> "1.65" [] t = "ECL" -> "-1.3"
      [] t = "LVTTL" -> "1.4" [] t = "LVCMOS3" -> "1.65" [] t = "LVCMOS2" -> "1.25"
      [] OTHER -> "1.5"

\* C23: get_threshold_voltage returns the table value of each standard type and 1.5
\* for every other string, CUSTOM included.
C23_ThresholdTable == ThresholdAsked => ret.text = DocumentedVoltage(call.threshold_type)

\* a lower-case type name got the default
C23_Witness == ThresholdAsked /\ call.threshold_type = "ttl" /\ ret.text = "1.5"

-----------------------------------------------------------------------------
(* One call of format_measurement_value, from values in every band of every kind of
   measurement and on the ends of the bands *)

\* frequencies: 1000.0, 1e6, 2.5e6, 999999.9, 999.9996, 0.5, 0, 1.0625, 12.3456, -5000
FreqValues ==
    {Dec(1000, 0), Dec(1, 6), Dec(25, 5), Dec(9999999, 0 - 1), Dec(9999996, 0 - 4), Dec(5, 0 - 1),
     Dec(0, 0), Dec(10625, 0 - 4), Dec(123456, 0 - 4), Neg(Dec(5, 3))}

\* times: 0.000001, 1, 2.5, 0.001, 0.00099994, 9.9e-7, 2.5e-10, 0, 1.0625, 1.23456e-3,
\* -2.5e-7
TimeValues ==
    {Dec(1, 0 - 6), Dec(1, 0), Dec(25, 0 - 1), Dec(1, 0 - 3), Dec(99994, 0 - 8), Dec(99, 0 - 8),
     Dec(25, 0 - 11), Dec(0, 0), Dec(10625, 0 - 4), Dec(123456, 0 - 8), Neg(Dec(25, 0 - 8))}

\* voltages: 0.001, 1, -1, -2.5, 0.5, -0.0005, 9.9e-4, 1.0625, -1.0625, 0, 1234.5678,
\* 1.2344e-3, -0.9996
VoltValues ==
    {Dec(1, 0 - 3), Dec(1, 0), Neg(Dec(1, 0)), Neg(Dec(25, 0 - 1)), Dec(5, 0 - 1),
     Neg(Dec(5, 0 - 4)), Dec(99, 0 - 5), Dec(10625, 0 - 4), Neg(Dec(10625, 0 - 4)), Dec(0, 0),
     Dec(12345678, 0 - 4), Dec(12344, 0 - 7), Neg(Dec(9996, 0 - 4))}

FormatCalls ==
    {[kind |-> "format_measurement_value", value |-> v, measurement_type |-> "FREQ"] :
        v \in FreqValues}
    \cup {[kind |-> "format_measurement_value", value |-> v, measurement_type |-> t] :
        v \in TimeValues, t \in {"PER", "PWID"}}
    \cup {[kind |-> "format_measurement_value", value |-> v, measurement_type |-> t] :
        v \in VoltValues, t \in {"VPP", "VAVG", "RTIM"}}

ApplyFormatMeasurementValue ==
    /\ ret = Pending
    /\ call.kind = "format_measurement_value"
    /\ ret' = [exc |-> "", text |-> format_measurement_value(call.value, call.measurement_type)]
    /\ UNCHANGED call

Formatted == call.kind = "format_measurement_value" /\ ret # Pending

\* m * 10^e >= 10^k, by integer arithmetic (m < 10^9)
AtLeastPow10(m, e, k) ==
    IF e >= k THEN m >= 1 ELSE IF k - e > 9 THEN FALSE ELSE m >= Pow10(k - e)

\* the unit the claim names for the value, and the power of ten it scales by
BandOf(v, t) ==
    IF t = "FREQ"
    THEN IF ~v.neg /\ AtLeastPow10(v.m, v.e, 6) THEN <<"MHz", 0 - 6>>
         ELSE IF ~v.neg /\ AtLeastPow10(v.m, v.e, 3) THEN <<"kHz", 0 - 3>>
         ELSE <<"Hz", 0>>
    ELSE IF t \in {"PER", "PWID"}
    THEN IF ~v.neg /\ AtLeastPow10(v.m, v.e, 0) THEN <<"s", 0>>
         ELSE IF ~v.neg /\ AtLeastPow10(v.m, v.e, 0 - 3) THEN <<"ms", 3>>
         ELSE IF ~v.neg /\ AtLeastPow10(v.m, v.e, 0 - 6) THEN <<"us", 6>>
         ELSE <<"ns", 9>>
    ELSE IF AtLeastPow10(v.m, v.e, 0) THEN <<"V", 0>>
         ELSE IF AtLeastPow10(v.m, v.e, 0 - 3) THEN <<"mV", 3>>
         ELSE <<"uV", 6>>

\* the printed number without sign and point, as an integer count of thousandths
PrintedThousandths(n) ==
    DigitsVal(Before(Unsigned(n), Find(Unsigned(n), ".")) \o After(Unsigned(n), Find(Unsigned(n), ".")))

\* is the count T of thousandths the nearest one to m * 10^x thousandths
NearestThousandths(T, m, x) ==
    IF m = 0 THEN T = 0
    ELSE IF x >= 0 THEN T = m * Pow10(x)
    ELSE /\ 2 * (T * Pow10(0 - x) - m) <= Pow10(0 - x)
         /\ 2 * (m - T * Pow10(0 - x)) <= Pow10(0 - x)

\* the number n is the value scaled by 10^shift, printed with three decimals
PrintsScaled(n, v, shift) ==
    /\ Find(n, ".") = Len(n) - 3
    /\ (Sign(n) < 0) <=> v.neg
    /\ NearestThousandths(PrintedThousandths(n), v.m, v.e + shift + 3)

\* the three documented calls
DocumentedFormats ==
    /\ (call.value = Dec(1000, 0) /\ call.measurement_type = "FREQ") => ret.text = "1.000 kHz"
    /\ (call.value = Dec(1, 0 - 3) /\ call.measurement_type = "VPP") => ret.text = "1.000 mV"
    /\ (call.value = Dec(1, 0 - 6) /\ call.measurement_type = "PER") => ret.text = "1.000 us"

\* C24: format_measurement_value prints "<number> <unit>", the unit picked by the band
\* of the value for the kind of measurement, the number being the value scaled to the
\* unit with three decimals; the three documented calls give the documented texts
\* ("us" is written for the micro sign followed by s).
C24_UnitByBand ==
    Formatted =>
        /\ Len(Split(ret.text, " ")) = 2
        /\ Split(ret.text, " ")[2] = BandOf(call.value, call.measurement_type)[1]
        /\ PrintsScaled(Split(ret.text, " ")[1], call.value,
                        BandOf(call.value, call.measurement_type)[2])
        /\ DocumentedFormats

\* a frequency just under 1 MHz is printed in kHz, rounded up to 1000.000
C24_Witness ==
    /\ Formatted
    /\ call.measurement_type = "FREQ" /\ call.value = Dec(9999999, 0 - 1)
    /\ ret.text = "1000.000 kHz"

-----------------------------------------------------------------------------
(* config.py: what reset_to_defaults and other instances see of the built-in
   defaults *)

\* the value the instance whose self.config is root answers for a built-in key path
Answer(h, root, path) == GetAt(h, Ref(root), path, Default)

JustReset == lastOp.op = "reset"

\* C25: right after reset_to_defaults, get answers the original built-in default for
\* every built-in key, whatever set calls ran before.
C25_ResetRestoresDefaults ==
    JustReset =>
        \A l \in BuiltinLeaves(DEFAULT_CONFIG, <<>>) : Answer(heap, config, l[1]) = l[2]

-----------------------------------------------------------------------------
(* SpecPoll: one auto_update_loop thread followed through its iterations. batch holds,
   for each thread, what happened in the iteration it is in *)

\* failed: update_waveform logged an error in this iteration; rate: "" before the rate
\* is read, "ok" when time.sleep(1.0 / rate) was entered, "bad" when float(), the
\* division or time.sleep raised; woke: the sleep the previous iteration ended with
NoCycle == [failed |-> FALSE, rate |-> "", woke |-> ""]

PollInit ==
    /\ GuiConstructed
    /\ DefaultSettings
    /\ batch = [t \in Threads |-> NoCycle]
    /\ ConfigInit
    /\ DecodeIdle

PollEnter(t) ==
    /\ LoopEnter(t)
    /\ batch' = [batch EXCEPT ![t].failed = FALSE, ![t].rate = ""]

PollExit(t) == LoopExit(t) /\ UNCHANGED batch

\* without a scope update_waveform returns; with one, a Points box int() refuses is
\* logged by the outer except of update_waveform
PollBegin(t) ==
    /\ UpdateWaveformBegin(t)
    /\ batch' = [batch EXCEPT ![t].failed = (scope # 0 /\ thr'[t].pc = "rate")]

PollIO(t) == ChannelIO(t) /\ UNCHANGED batch

PollError(t) ==
    /\ ChannelError(t)
    /\ batch' = [batch EXCEPT ![t].failed = TRUE]

PollRedraw(t) == Redraw(t) /\ UNCHANGED batch

PollRate(t) ==
    /\ RateSleep(t)
    /\ batch' = [batch EXCEPT ![t].rate = IF thr'[t].pc = "sleep" THEN "ok" ELSE "bad"]

PollWake(t) ==
    /\ Wake(t)
    /\ batch' = [batch EXCEPT ![t].woke = IF thr[t].pc = "errsleep" THEN "second" ELSE "rate"]

\* the Auto Update box is checked once in a run
PollToggleOn == update_thread = 0 /\ ToggleAutoUpdateOn /\ UNCHANGED batch

PollNext ==
    \/ \E t \in Threads : PollEnter(t) /\ UNCHANGED <<decodeVars, configVars, settingVars>>
    \/ \E t \in Threads : PollExit(t) /\ UNCHANGED <<decodeVars, configVars, settingVars>>
    \/ \E t \in Threads : PollBegin(t) /\ UNCHANGED <<decodeVars, configVars, settingVars>>
    \/ \E t \in Threads : PollIO(t) /\ UNCHANGED <<decodeVars, configVars, settingVars>>
    \/ \E t \in Threads : PollError(t) /\ UNCHANGED <<decodeVars, configVars, settingVars>>
    \/ \E t \in Threads : PollRedraw(t) /\ UNCHANGED <<decodeVars, configVars, settingVars>>
    \/ \E t \in Threads : PollRate(t) /\ UNCHANGED <<decodeVars, configVars, settingVars>>
    \/ \E t \in Threads : PollWake(t) /\ UNCHANGED <<decodeVars, configVars, settingVars>>
    \/ (PollToggleOn /\ UNCHANGED <<decodeVars, configVars, settingVars>>)
    \/ (ToggleAutoUpdateOff /\ UNCHANGED <<decodeVars, configVars, settingVars, batch>>)
    \/ (ConnectBegin /\ UNCHANGED <<decodeVars, configVars, settingVars, batch>>)
    \/ (ConnectEnd /\ UNCHANGED <<decodeVars, configVars, settingVars, batch>>)
    \/ (DisconnectBegin /\ UNCHANGED <<decodeVars, configVars, settingVars, batch>>)
    \/ (DisconnectEnd /\ UNCHANGED <<decodeVars, configVars, settingVars, batch>>)

SpecPoll == PollInit /\ [][PollNext]_vars

Sleeping(t) == thr[t].pc \in {"sleep", "errsleep"}

\* the thread function returns in this step
Returns(t) == thr'[t].pc = "done" /\ thr[t].pc # "done"

\* the loop ends only at its test, with the flag false; a sleep is followed by the test
LoopGoesOn ==
    \A t \in Threads :
        /\ Returns(t) => (thr[t].pc = "check" /\ ~is_running)
        /\ (Sleeping(t) /\ thr'[t] # thr[t]) => thr'[t].pc = "check"

\* C26 as stated: an iteration in which anything failed (the waveform update, the rate)
\* ends with the one-second sleep of the loop's except, an iteration without error with
\* the sleep of 1/rate; the loop ends only when it sees the flag false.
C26_AnyErrorSleepsOneSecond ==
    /\ [](\A t \in Threads :
            Sleeping(t) =>
                (thr[t].pc = "errsleep" <=> (batch[t].failed \/ batch[t].rate = "bad")))
    /\ [][LoopGoesOn]_vars

\* C26, amended: the one-second sleep follows exactly an exception of the rate (float(),
\* the division, time.sleep); a failed waveform update is caught inside update_waveform
\* and the iteration goes on to the rate and sleeps 1/rate like one without error; the
\* loop ends only when it sees the flag false.
C26_RateErrorSleepsOneSecond ==
    /\ [](\A t \in Threads :
            Sleeping(t) => (thr[t].pc = "errsleep" <=> batch[t].rate = "bad"))
    /\ [][LoopGoesOn]_vars

\* the loop caught an error of the rate, slept one second and started the next iteration
C26_Witness ==
    \E t \in Threads : thr[t].pc = "update" /\ batch[t].woke = "second" /\ is_running

-----------------------------------------------------------------------------
(* Claims about disconnect_scope and the polling thread (Spec) *)

\* the next statement of the retrieval thread t is in: a write or read of self.inst
NextOp(t) == SlotIO(thr[t].pos)[thr[t].step + 1]

\* between the read of the preamble and the data request the preamble is parsed, which
\* may raise; every other operation follows the one before it unconditionally
FollowsUnconditionally(t) == NextOp(t) # "write :WAV:DATA?"

\* thread t executes its next write or read on a session close() was called on
TalksToClosedSession(t) ==
    /\ MidRetrieval(t)
    /\ thr[t].inst \in closed
    /\ FollowsUnconditionally(t)
    /\ thr'[t] # thr[t]

\* C27: once disconnect_scope has closed the session, no polling thread executes a
\* write, query or read on it, the cycle in progress at the clear of the flag included.
C27_NoIOAfterClose == [][\A t \in Threads : ~TalksToClosedSession(t)]_vars

-----------------------------------------------------------------------------
(* Claims about the instrument sessions of connect_scope and disconnect_scope (Spec) *)

\* self.scope is bound to another object, or to None, in this step
ScopeDropped == scope # 0 /\ scope' # scope

\* C28: whenever self.scope lets go of a session (a disconnect, a connect while
\* connected), close() has been called on that session, so that no open session is
\* left unreachable and at most one is open.
C28_ClosedBeforeDropped == [][ScopeDropped => scope \in closed']_vars

-----------------------------------------------------------------------------
(* config.py: the class-level defaults and the earlier instance while a later
   instance is constructed and loaded *)

\* Config.DEFAULT_CONFIG and its nested dicts are as the class statement built them
DefaultsIntact == SubSeq(heap, 1, Len(DefaultHeap)) = DefaultHeap

\* a step leaves the answers of the instance that existed before it as they were
OlderInstanceKeeps ==
    config # 0 =>
        \A l \in BuiltinLeaves(DEFAULT_CONFIG, <<>>) :
            Answer(heap', config, l[1]) = Answer(heap, config, l[1])

\* C29: constructing and loading a Config instance changes neither the class-level
\* DEFAULT_CONFIG nor what get answers on the instance constructed before it.
C29_InstancesIsolated == [][DefaultsIntact' /\ OlderInstanceKeeps]_vars

-----------------------------------------------------------------------------
(* One call of update_trigger, from every modelled content of its four controls *)

\* trigger_mode_var and trigger_slope_var start from the configuration
\* (trigger.default_mode, trigger.default_slope) and are then set by radio buttons;
\* trigger_source_var is an editable combobox; trigger_level_var an entry
TriggerModes == {"AUTO", "NORM", "SING", "SINGLE"}

TriggerSources == {"CHAN1", "EXT", "CHAN9"}

TriggerLevels == {"0.0", "-100", "100.5", "high"}

TriggerSlopes == {"POS", "NEG", "RFAL", "RISE"}

TriggerCalls ==
    {[kind |-> "update_trigger_controls", s |-> s, io |-> io, mode |-> m, source |-> src,
      level |-> l, slope |-> sl] :
        s \in BOOLEAN, io \in BOOLEAN, m \in TriggerModes, src \in TriggerSources,
        l \in TriggerLevels, sl \in TriggerSlopes}

ApplyUpdateTriggerControls ==
    /\ ret = Pending
    /\ call.kind = "update_trigger_controls"
    /\ ret' = update_trigger(call.s, call.io, call.mode, call.source, call.level, call.slope)
    /\ UNCHANGED call

TriggerUpdated == call.kind = "update_trigger_controls" /\ ret # Pending

\* C30: over a link that carries every write, update_trigger writes all four trigger
\* commands (mode, source, level, slope) or none of them.
C30_TriggerAllOrNothing ==
    (TriggerUpdated /\ call.io) => Len(ret.written) \in {0, 4}

-----------------------------------------------------------------------------
(* SpecOps: one call of an operation that is followed on its own, from every modelled
   input *)

OpCalls == ConnectCalls \cup EntryCalls \cup MeasureCalls \cup ExportCalls \cup ScaleCalls
           \cup DigitalOpCalls \cup LabelCalls \cup ThresholdCalls
           \cup FormatCalls \cup TriggerCalls

OpsInit ==
    /\ call \in OpCalls
    /\ ret = Pending
    /\ ConfigInit
    /\ GuiIdle

OpsNext ==
    \/ (CallRigolInit /\ UNCHANGED <<configVars, guiVars, settingVars, batch>>)
    \/ (ApplyUpdateChannelScale /\ UNCHANGED <<configVars, guiVars, settingVars, batch>>)
    \/ (ApplyUpdateChannelOffset /\ UNCHANGED <<configVars, guiVars, settingVars, batch>>)
    \/ (ApplyUpdateTrigger /\ UNCHANGED <<configVars, guiVars, settingVars, batch>>)
    \/ (ApplyUpdateMeasurements /\ UNCHANGED <<configVars, guiVars, settingVars, batch>>)
    \/ (ApplySaveWaveform /\ UNCHANGED <<configVars, guiVars, settingVars, batch>>)
    \/ (ApplyValidateScaleValue /\ UNCHANGED <<configVars, guiVars, settingVars, batch>>)
    \/ (ApplyDigitalOp /\ UNCHANGED <<configVars, guiVars, settingVars, batch>>)
    \/ (ApplyUpdateDigitalLabel /\ UNCHANGED <<configVars, guiVars, settingVars, batch>>)
    \/ (ApplyGetThresholdVoltage /\ UNCHANGED <<configVars, guiVars, settingVars, batch>>)
    \/ (ApplyFormatMeasurementValue /\ UNCHANGED <<configVars, guiVars, settingVars, batch>>)
    \/ (ApplyUpdateTriggerControls /\ UNCHANGED <<configVars, guiVars, settingVars, batch>>)

SpecOps == OpsInit /\ [][OpsNext]_vars

====
